---- MODULE Spec2Model ----
(***************************************************************************)
(* Round Orchestration Engine of the CTF agent: the Task Tree              *)
(* (task_manager.py), the Context Optimizer (context_optimizer.py) and     *)
(* the Round Controller CTFAgent.interact (ctf_agent.py).                  *)
(*                                                                         *)
(* Texts are abstracted to what the code inspects of them: their length,   *)
(* an identity of their content (two texts with the same txt share every   *)
(* prefix), an "ERROR: " prefix and a trailing "..." left by truncation.   *)
(***************************************************************************)
EXTENDS Integers, Sequences, FiniteSets, TLC

VARIABLES
    has_tree,             \* CTFAgent.task_tree is not None
    challenge_title,      \* TaskTree.challenge_title
    tasks,                \* TaskTree.tasks
    current_task_id,      \* TaskTree.current_task_id
    current_round,        \* CTFAgent.current_round
    conversation_history, \* CTFAgent.conversation_history
    chat_messages,        \* CTFAgent.memory.chat_memory.messages (lengths)
    last_tool_results,    \* CTFAgent.last_tool_results
    last_flag_candidate,  \* CTFAgent.last_flag_candidate
    ret,                  \* what the last interact call returned
    sent,                 \* what the last interact call handed to the model
    prompt,               \* what the last get_continue_prompt call built
    directive_log,        \* history: per task id, the directives applied to it
    last_attach,          \* history: what the last add_tool_result call did
    n_calls,              \* history: number of operations performed so far
    dispatched,           \* history: the tool calls the last interact call handled
    saved_tree,           \* the task tree file: the tasks last written to it
    saved_history,        \* the conversation file: the rounds last written to it
    session,              \* the session loop of main.py: its position and its locals
    scan                  \* the flag functions on their own: argument and results

vars == << has_tree, challenge_title, tasks, current_task_id, current_round, conversation_history,
           chat_messages, last_tool_results, last_flag_candidate, ret, sent,
           prompt, directive_log, last_attach, n_calls, dispatched, saved_tree,
           saved_history, session, scan >>

----------------------------------------------------------------------------
(* Bounds of the model *)

MaxTaskId == 2      \* the tree specifications name task ids 0..MaxTaskId
MaxOps == 3         \* operations performed in one behaviour of the tree specifications
MaxRounds == 3      \* interact calls in one behaviour of Spec
MaxValveRounds == 7 \* interact calls in one behaviour of SpecValve
MaxOrderRounds == 4 \* interact calls in one behaviour of SpecOrder
MaxAgentCalls == 3  \* start_challenge and interact calls in one behaviour of SpecAgent
MaxCtxRound == 10   \* round numbers handed to the Context Optimizer in SpecCtx
MaxCtxTasks == 5    \* tasks in the trees handed to the Context Optimizer in SpecCtx

Max(a, b) == IF a >= b THEN a ELSE b
Min(a, b) == IF a <= b THEN a ELSE b

RECURSIVE SumSeq(_)
SumSeq(s) == IF s = << >> THEN 0 ELSE Head(s) + SumSeq(Tail(s))

----------------------------------------------------------------------------
(* Texts *)

ErrPrefixLen == 7   \* len("ERROR: ")
EllipsisLen == 3    \* len("...")

Text(t, n) == [err |-> FALSE, txt |-> t, len |-> n, ell |-> FALSE]
EmptyText == Text("", 0)

Length(t) == (IF t.err THEN ErrPrefixLen ELSE 0) + t.len + (IF t.ell THEN EllipsisLen ELSE 0)

\* x[:k]
Slice(t, k) ==
    IF Length(t) <= k THEN t
    ELSE [t EXCEPT !.len = Min(t.len, k - (IF t.err THEN ErrPrefixLen ELSE 0)), !.ell = FALSE]

\* x[:k] + "..." if len(x) > k else x
Truncate(t, k) == IF Length(t) > k THEN [Slice(t, k) EXCEPT !.ell = TRUE] ELSE t

\* x.strip(): the text "ws" is whitespace only, no other text has whitespace at its ends
Strip(t) == IF t.txt = "ws" /\ ~t.err THEN EmptyText ELSE t

\* "ERROR: " + x
ErrorOf(t) == [t EXCEPT !.err = TRUE]

----------------------------------------------------------------------------
(* Task Tree (task_manager.py, class TaskTree) *)

ValidStatuses == {"pending", "in-progress", "completed", "failed"}

\* str.lower() on the status words the directives carry
Lower(s) ==
    CASE s = "COMPLETED" -> "completed"
      [] s = "In-Progress" -> "in-progress"
      [] s = "IN_PROGRESS" -> "in_progress"
      [] OTHER -> s

\* status.lower().replace("_", "-")
Hyphenate(s) == IF Lower(s) = "in_progress" THEN "in-progress" ELSE Lower(s)

TaskManagerName == "task_manager"
InputCap == 200     \* stored subtask input
ResultCap == 500    \* stored subtask result

NoId == -1          \* task_id absent, None, "" or 0
BadId == -2         \* task_id a string that int() rejects

\* TaskTree(challenge_title: str = "Challenge"), and the title of the challenge
\* start_challenge hands to it
DefaultTitle == "Challenge"
ChallengeTitle == "vault-door-1"

Tree(ts, ctid) == [tasks |-> ts, current_task_id |-> ctid]
NewTree == Tree(<< >>, 0)

NewTask(id, description, status) ==
    [id |-> id, description |-> description, status |-> status, subtasks |-> << >>]

\* for i, existing_task in enumerate(self.tasks): if existing_task.get("id") == task_id
IndexOf(ts, id) ==
    IF \E i \in 1..Len(ts) : ts[i].id = id
    THEN CHOOSE i \in 1..Len(ts) : ts[i].id = id /\ \A j \in 1..(i-1) : ts[j].id # id
    ELSE 0

\* self.tasks.sort(key=lambda x: x.get("id", 0)), a stable sort
RECURSIVE InsertById(_, _)
InsertById(sorted, t) ==
    IF sorted = << >> THEN << t >>
    ELSE IF sorted[Len(sorted)].id <= t.id THEN Append(sorted, t)
    ELSE Append(InsertById(SubSeq(sorted, 1, Len(sorted) - 1), t), sorted[Len(sorted)])

RECURSIVE SortById(_)
SortById(ts) ==
    IF ts = << >> THEN << >>
    ELSE InsertById(SortById(SubSeq(ts, 1, Len(ts) - 1)), ts[Len(ts)])

SortTasks(ts) == SortById(ts)

\* one match of the arrow pattern: update the task in place or append it
ApplyArrowAppendAlways(tree, d) ==
    Tree(Append(tree.tasks, NewTask(d.id, d.description, Lower(d.status))),
         Max(tree.current_task_id, d.id))

ApplyArrowKeepWatermark(tree, d) ==
    LET i == IndexOf(tree.tasks, d.id) IN
    IF i # 0
    THEN Tree([tree.tasks EXCEPT ![i].status = Lower(d.status),
                                 ![i].description = d.description],
              tree.current_task_id)
    ELSE Tree(Append(tree.tasks, NewTask(d.id, d.description, Lower(d.status))),
              tree.current_task_id)

ApplyArrowReplaceTask(tree, d) ==
    LET i == IndexOf(tree.tasks, d.id) IN
    IF i # 0
    THEN Tree([tree.tasks EXCEPT ![i] = NewTask(d.id, d.description, Lower(d.status))],
              tree.current_task_id)
    ELSE Tree(Append(tree.tasks, NewTask(d.id, d.description, Lower(d.status))),
              Max(tree.current_task_id, d.id))

ApplyArrow(tree, d) ==
    LET i == IndexOf(tree.tasks, d.id) IN
    IF i # 0
    THEN Tree([tree.tasks EXCEPT ![i].status = Lower(d.status),
                                 ![i].description = d.description],
              tree.current_task_id)
    ELSE Tree(Append(tree.tasks, NewTask(d.id, d.description, Lower(d.status))),
              Max(tree.current_task_id, d.id))

RECURSIVE ApplyArrows(_, _)
ApplyArrows(tree, ds) ==
    IF ds = << >> THEN tree ELSE ApplyArrows(ApplyArrow(tree, Head(ds)), Tail(ds))

\* the id one JSON update is applied under
JsonTaskIdAlwaysFresh(tree, u) == tree.current_task_id + 1

JsonTaskId(tree, u) ==
    IF u.task_id = NoId \/ u.task_id = BadId
    THEN tree.current_task_id + 1
    ELSE u.task_id

ApplyUpdate(tree, u) ==
    LET id == JsonTaskId(tree, u)
        ctid == Max(tree.current_task_id, id)
        i == IndexOf(tree.tasks, id)
    IN  IF i # 0
        THEN Tree([tree.tasks EXCEPT ![i].status = u.status,
                                     ![i].description = u.description], ctid)
        ELSE Tree(Append(tree.tasks, NewTask(id, u.description, u.status)), ctid)

RECURSIVE ApplyUpdates(_, _)
ApplyUpdates(tree, us) ==
    IF us = << >> THEN tree ELSE ApplyUpdates(ApplyUpdate(tree, Head(us)), Tail(us))

\* the payloads of the <tool>task_manager</tool><input>..</input> blocks, in order:
\* an unparseable payload is skipped (JSONDecodeError, continue); a payload that
\* parses to something other than an object ends the loop (except Exception)
RECURSIVE ApplyPayloads(_, _)
ApplyPayloads(tree, ps) ==
    IF ps = << >> THEN tree
    ELSE LET p == Head(ps) IN
         CASE p.kind = "unparseable" -> ApplyPayloads(tree, Tail(ps))
           [] p.kind = "notobject" -> tree
           [] OTHER -> ApplyPayloads(ApplyUpdates(tree, p.updates), Tail(ps))

RECURSIVE CountPayloads(_)
CountPayloads(ps) ==
    IF ps = << >> THEN 0
    ELSE LET p == Head(ps) IN
         CASE p.kind = "unparseable" -> CountPayloads(Tail(ps))
           [] p.kind = "notobject" -> 0
           [] OTHER -> Len(p.updates) + CountPayloads(Tail(ps))

\* the payloads the JSON pattern finds in a response: the well-formed inline
\* calls of the task-reporting tool
RECURSIVE JsonPayloads(_)
JsonPayloads(calls) ==
    IF calls = << >> THEN << >>
    ELSE LET c == Head(calls) IN
         IF c.tool = TaskManagerName /\ c.closed_tool /\ c.closed_input
         THEN << c.payload >> \o JsonPayloads(Tail(calls))
         ELSE JsonPayloads(Tail(calls))

ExtractTasksUnsorted(tree, resp) ==
    LET t1 == ApplyArrows(tree, resp.arrows) IN
    IF Len(resp.arrows) = 0 THEN ApplyPayloads(t1, JsonPayloads(resp.inline)) ELSE t1

\* extract_tasks_from_response: the tree after it
ExtractTasks(tree, resp) ==
    LET t1 == ApplyArrows(tree, resp.arrows)
        t2 == IF Len(resp.arrows) = 0
              THEN ApplyPayloads(t1, JsonPayloads(resp.inline))
              ELSE t1
    IN  Tree(SortTasks(t2.tasks), t2.current_task_id)

\* extract_tasks_from_response: its return value
ExtractedCount(resp) ==
    IF Len(resp.arrows) # 0 THEN Len(resp.arrows)
    ELSE CountPayloads(JsonPayloads(resp.inline))

\* for task in reversed(self.tasks): if task.get("status") == "in-progress"
LastInProgress(ts) ==
    IF \E i \in 1..Len(ts) : ts[i].status = "in-progress"
    THEN CHOOSE i \in 1..Len(ts) :
            ts[i].status = "in-progress" /\ \A j \in (i+1)..Len(ts) : ts[j].status # "in-progress"
    ELSE 0

DefaultTask == NewTask(1, "Challenge analysis and solving", "in-progress")

\* add_tool_result: the index of the task the subtask goes to, in the task
\* list after the default task was synthesized
TargetIndex(ts) == IF LastInProgress(ts) # 0 THEN LastInProgress(ts) ELSE Len(ts)

AddToolResultNoSkip(tree, tool, input, result) ==
    LET base == IF tree.tasks = << >> THEN Tree(<< DefaultTask >>, 1) ELSE tree
        i == TargetIndex(base.tasks)
        sub == [id |-> Len(base.tasks[i].subtasks) + 1,
                tool |-> tool,
                input |-> Truncate(input, InputCap),
                result |-> Truncate(result, ResultCap)]
    IN  Tree([base.tasks EXCEPT ![i].subtasks = Append(@, sub)], base.current_task_id)

AddToolResult(tree, tool, input, result) ==
    IF tool = TaskManagerName THEN tree
    ELSE LET base == IF tree.tasks = << >> THEN Tree(<< DefaultTask >>, 1) ELSE tree
             i == TargetIndex(base.tasks)
             sub == [id |-> Len(base.tasks[i].subtasks) + 1,
                     tool |-> tool,
                     input |-> Truncate(input, InputCap),
                     result |-> Truncate(result, ResultCap)]
         IN  Tree([base.tasks EXCEPT ![i].subtasks = Append(@, sub)], base.current_task_id)

\* update_task_status
UpdateTaskStatus(tree, id, status, description) ==
    LET st == IF Hyphenate(status) \in ValidStatuses THEN Hyphenate(status) ELSE "pending"
        i == IndexOf(tree.tasks, id)
    IN  IF i # 0
        THEN Tree([tree.tasks EXCEPT ![i].status = st,
                                     ![i].description = IF description # "" THEN description ELSE @],
                  tree.current_task_id)
        ELSE Tree(Append(tree.tasks,
                         NewTask(id, IF description # "" THEN description ELSE "Task N", st)),
                  Max(tree.current_task_id, id))

\* save_to_file and load_from_file.  The document is the JSON text json.dump
\* writes: every value with the JSON type it is written as
JNumber(n) == [type |-> "number", v |-> n]
JString(s) == [type |-> "string", v |-> s]
JArray(a) == [type |-> "array", v |-> a]
JObject(o) == [type |-> "object", v |-> o]

SubtaskToJson(sub) ==
    JObject([id |-> JNumber(sub.id), tool |-> JString(sub.tool),
             input |-> JString(sub.input), result |-> JString(sub.result)])

TaskToJson(task) ==
    JObject([id |-> JNumber(task.id), description |-> JString(task.description),
             status |-> JString(task.status),
             subtasks |-> JArray([j \in 1..Len(task.subtasks) |->
                                     SubtaskToJson(task.subtasks[j])])])

\* data = {"challenge_title": .., "tasks": .., "current_task_id": .., "saved_at": ..}
SaveToFile(title, tree) ==
    JObject([challenge_title |-> JString(title),
             tasks |-> JArray([i \in 1..Len(tree.tasks) |-> TaskToJson(tree.tasks[i])]),
             current_task_id |-> JNumber(tree.current_task_id),
             saved_at |-> JString("now")])

\* json.load: the Python value of a JSON value
SubtaskFromJson(j) ==
    [id |-> j.v.id.v, tool |-> j.v.tool.v, input |-> j.v.input.v, result |-> j.v.result.v]

TaskFromJson(j) ==
    [id |-> j.v.id.v, description |-> j.v.description.v, status |-> j.v.status.v,
     subtasks |-> [k \in 1..Len(j.v.subtasks.v) |-> SubtaskFromJson(j.v.subtasks.v[k])]]

\* a TaskTree object: its three fields
TreeObject(title, tree) ==
    [challenge_title |-> title, tasks |-> tree.tasks, current_task_id |-> tree.current_task_id]

\* the file of a tree: whether it exists, the document in it and, as history,
\* the object it was written from and how many times it was loaded
NoTreeFile ==
    [written |-> FALSE, content |-> << >>, of |-> TreeObject(DefaultTitle, NewTree),
     loads |-> 0]

TreeFile(title, tree) ==
    [written |-> TRUE, content |-> SaveToFile(title, tree), of |-> TreeObject(title, tree),
     loads |-> 0]

\* load_from_file on the object obj: False, and the object as it was, when the
\* file does not exist; else the three fields from the document
LoadFromFileKeepWatermark(obj, file) ==
    IF ~file.written THEN obj
    ELSE [challenge_title |-> file.content.v.challenge_title.v,
          tasks |-> [i \in 1..Len(file.content.v.tasks.v) |->
                        TaskFromJson(file.content.v.tasks.v[i])],
          current_task_id |-> obj.current_task_id]

LoadFromFile(obj, file) ==
    IF ~file.written THEN obj
    ELSE [challenge_title |-> file.content.v.challenge_title.v,
          tasks |-> [i \in 1..Len(file.content.v.tasks.v) |->
                        TaskFromJson(file.content.v.tasks.v[i])],
          current_task_id |-> file.content.v.current_task_id.v]

----------------------------------------------------------------------------
(* History of the directives, kept for the properties: per task id, how many *)
(* directives were applied to it (2 stands for two or more) and the          *)
(* description and status the last one carried.                              *)

Logged(log, id, description, status) ==
    [k \in DOMAIN log \cup {id} |->
        IF k = id
        THEN [n |-> IF id \in DOMAIN log THEN Min(log[id].n + 1, 2) ELSE 1,
              description |-> description, status |-> status]
        ELSE log[k]]

RECURSIVE LogArrows(_, _)
LogArrows(log, ds) ==
    IF ds = << >> THEN log
    ELSE LogArrows(Logged(log, Head(ds).id, Head(ds).description, Lower(Head(ds).status)),
                   Tail(ds))

RECURSIVE LogUpdates(_, _, _)
LogUpdates(log, tree, us) ==
    IF us = << >> THEN log
    ELSE LogUpdates(Logged(log, JsonTaskId(tree, Head(us)), Head(us).description, Head(us).status),
                    ApplyUpdate(tree, Head(us)), Tail(us))

RECURSIVE LogPayloads(_, _, _)
LogPayloads(log, tree, ps) ==
    IF ps = << >> THEN log
    ELSE LET p == Head(ps) IN
         CASE p.kind = "unparseable" -> LogPayloads(log, tree, Tail(ps))
           [] p.kind = "notobject" -> log
           [] OTHER -> LogPayloads(LogUpdates(log, tree, p.updates),
                                   ApplyUpdates(tree, p.updates), Tail(ps))

LogExtract(log, tree, resp) ==
    IF Len(resp.arrows) # 0 THEN LogArrows(log, resp.arrows)
    ELSE LogPayloads(log, tree, JsonPayloads(resp.inline))

----------------------------------------------------------------------------
(* What the code looks for in a text.  The texts of the model:             *)
(*   "out"    ordinary tool output                                          *)
(*   "ws"     whitespace only                                               *)
(*   "succ"   a text that starts with {"success" (JSON that json.loads      *)
(*            rejects, or whose output is not a string)                     *)
(*   "trace"  a text that holds the word Traceback                          *)
(*   "flag"   a text that holds the goal token picoCTF{abc_123}             *)

\* Goal tokens are sequences of characters
Pico == << "p", "i", "c", "o" >>
Braced(body) == << "{" >> \o body \o << "}" >>
Abc123 == << "a", "b", "c", "_", "1", "2", "3" >>

Candidate == Pico \o << "C", "T", "F" >> \o Braced(Abc123)
OtherCandidate == Pico \o << "C", ":", "F" >> \o Braced(<< "x", "y", "z" >>)

\* str.lower(), character by character
LowerChar(c) ==
    CASE c = "P" -> "p" [] c = "I" -> "i" [] c = "C" -> "c" [] c = "O" -> "o"
      [] c = "T" -> "t" [] c = "F" -> "f" [] c = "L" -> "l" [] c = "A" -> "a"
      [] c = "G" -> "g" [] c = "X" -> "x" [] OTHER -> c

LowerChars(s) == [i \in 1..Len(s) |-> LowerChar(s[i])]

\* s[i:i+len(w)] == w
At(s, i, w) == i >= 1 /\ i + Len(w) - 1 <= Len(s) /\ SubSeq(s, i, i + Len(w) - 1) = w

\* the index of the first "}" at or after i, 0 when there is none
CloseFrom(s, i) ==
    IF \E e \in i..Len(s) : s[e] = "}"
    THEN CHOOSE e \in i..Len(s) : s[e] = "}" /\ \A k \in i..(e-1) : s[k] # "}"
    ELSE 0

\* pico[C:]?[T:]?F with re.IGNORECASE, matched at i: the index of the "F", 0
\* when the prefix does not match there
TolerantPrefixExact(low, i) ==
    IF At(low, i, Pico \o << "c", "t", "f" >>) THEN i + 6 ELSE 0

TolerantPrefix(low, i) ==
    LET j == i + 4
    IN  IF ~At(low, i, Pico) THEN 0
        ELSE IF At(low, j, << "f" >>) THEN j
        ELSE IF j + 1 <= Len(low) /\ low[j] \in {"c", ":", "t"} /\ low[j+1] = "f" THEN j + 1
        ELSE IF j + 2 <= Len(low) /\ low[j] \in {"c", ":"} /\ low[j+1] \in {"t", ":"}
                /\ low[j+2] = "f" THEN j + 2
        ELSE 0

\* picoCTF, matched at i as it is written
StrictPrefix(s, i) == IF At(s, i, Pico \o << "C", "T", "F" >>) THEN i + 6 ELSE 0

\* \{[^}]+\} after a prefix that ends at f: the index of the "}", 0 when
\* there is no match
BracedEnd(s, f) ==
    IF f = 0 \/ ~At(s, f + 1, << "{" >>) THEN 0
    ELSE LET e == CloseFrom(s, f + 2) IN IF e > f + 2 THEN e ELSE 0

\* re.findall(r'pico[C:]?[T:]?F\{[^}]+\}', text, re.IGNORECASE), from index i:
\* the leftmost match, then the matches after its end
RECURSIVE FindAllFrom(_, _, _)
FindAllFrom(s, low, i) ==
    LET found == {k \in i..Len(s) : BracedEnd(s, TolerantPrefix(low, k)) # 0} IN
    IF found = {} THEN << >>
    ELSE LET k == CHOOSE k \in found : \A j \in found : k <= j
             e == BracedEnd(s, TolerantPrefix(low, k))
         IN  << SubSeq(s, k, e) >> \o FindAllFrom(s, low, e + 1)

FindAll(s) == FindAllFrom(s, LowerChars(s), 1)

\* re.search(r"picoCTF\{[^}]+\}", text): the first match, << >> when none
SearchStrict(s) ==
    LET found == {k \in 1..Len(s) : BracedEnd(s, StrictPrefix(s, k)) # 0} IN
    IF found = {} THEN << >>
    ELSE LET k == CHOOSE k \in found : \A j \in found : k <= j
         IN  SubSeq(s, k, BracedEnd(s, StrictPrefix(s, k)))

\* re.search(r'pico[C:]?[T:]?F\{[^}]+\}', result, re.IGNORECASE) on a tool result
MatchesGoalToken(t) == t.txt = "flag"

\* any(w in result.lower() for w in ['error', 'failed', 'exception', 'traceback'])
HasErrorWord(t) == t.err \/ t.txt = "trace"

\* result.startswith('{"success"')
StartsWithSuccess(t) == ~t.err /\ t.txt = "succ" /\ t.len > 0

\* result and result.strip()
NonBlank(t) == Length(Strip(t)) > 0

Sentinel == Text("No output generated", 19)

\* _parse_tool_result.  An observation is a JSON object with a success field
\* ("json_ok": success true, output body; "json_fail": success false, error
\* body), a plain string, or a string wrapped in quotes or in b'..'
ParseToolResult(obs) ==
    CASE obs.kind = "json_ok" -> Strip(obs.body)
      [] obs.kind = "json_fail" -> ErrorOf(obs.body)
      [] obs.kind = "plain" ->
            IF Length(Strip(obs.body)) = 0 THEN Sentinel ELSE Strip(obs.body)
      [] OTHER -> \* "quoted", "bytes": the wrapping is cut, the inside is kept as it is
            IF Length(obs.body) = 0 THEN Sentinel ELSE obs.body

RegisteredTools == {"code_executor", "file_reader", TaskManagerName}

\* f"ERROR: Tool '{tool_name}' not found"
NotFound(tool) ==
    [err |-> TRUE, txt |-> "Tool '" \o tool \o "' not found", len |-> 17, ell |-> FALSE]
ExecFailed == [err |-> TRUE, txt |-> "Tool execution failed", len |-> 30, ell |-> FALSE]

\* _execute_tool
ExecuteToolUnregisteredRuns(call) ==
    IF call.raises THEN ExecFailed ELSE ParseToolResult(call.obs)

ExecuteTool(call) ==
    IF call.tool \notin RegisteredTools THEN NotFound(call.tool)
    ELSE IF call.raises THEN ExecFailed
    ELSE ParseToolResult(call.obs)

\* The inline markup of a model text, as the sequence of its tags and of the
\* texts between them; b is the block a piece was written for
Tok(t, b) == [t |-> t, b |-> b]

RenderBlock(c, b) ==
    << Tok("<tool>", b), Tok("name", b) >>
    \o (IF c.closed_tool THEN << Tok("</tool>", b) >> ELSE << >>)
    \o << Tok("<input>", b), Tok("payload", b) >>
    \o (IF c.closed_input THEN << Tok("</input>", b) >> ELSE << >>)

RECURSIVE RenderFrom(_, _)
RenderFrom(blocks, b) ==
    IF b > Len(blocks) THEN << >>
    ELSE RenderBlock(blocks[b], b) \o RenderFrom(blocks, b + 1)

Render(blocks) == RenderFrom(blocks, 1)

\* t in text
Has(text, t) == \E i \in 1..Len(text) : text[i].t = t

\* text.split(t)
RECURSIVE SplitOn(_, _)
SplitOn(text, t) ==
    IF ~Has(text, t) THEN << text >>
    ELSE LET i == CHOOSE i \in 1..Len(text) :
                     text[i].t = t /\ \A j \in 1..(i-1) : text[j].t # t
         IN  << SubSeq(text, 1, i - 1) >> \o SplitOn(SubSeq(text, i + 1, Len(text)), t)

\* (tool_name, tool_input) of one segment, with what the tool of that name
\* does on that input
CallOf(name, input, blocks) ==
    IF name = << >> \/ input = << >>
    THEN [tool |-> "", input |-> EmptyText, closed_tool |-> TRUE, closed_input |-> TRUE,
          payload |-> [kind |-> "none", updates |-> << >>], raises |-> FALSE,
          obs |-> [kind |-> "plain", body |-> EmptyText]]
    ELSE [blocks[name[1].b] EXCEPT !.input = blocks[input[1].b].input,
                                   !.payload = blocks[input[1].b].payload]

RECURSIVE ParseSegmentsStopAtMalformed(_, _)
ParseSegmentsStopAtMalformed(segments, blocks) ==
    IF segments = << >> THEN << >>
    ELSE LET seg == Head(segments) IN
         IF ~Has(seg, "</tool>") \/ ~Has(seg, "<input>") \/ ~Has(seg, "</input>")
         THEN << >>
         ELSE << CallOf(SplitOn(seg, "</tool>")[1],
                        SplitOn(SplitOn(seg, "<input>")[2], "</input>")[1], blocks) >>
              \o ParseSegmentsStopAtMalformed(Tail(segments), blocks)

\* the loop of _parse_tool_calls over the segments
RECURSIVE ParseSegments(_, _)
ParseSegments(segments, blocks) ==
    IF segments = << >> THEN << >>
    ELSE LET seg == Head(segments) IN
         IF ~Has(seg, "</tool>") THEN ParseSegments(Tail(segments), blocks)
         ELSE IF ~Has(seg, "<input>") \/ ~Has(seg, "</input>")
              THEN ParseSegments(Tail(segments), blocks)
              ELSE << CallOf(SplitOn(seg, "</tool>")[1],
                             SplitOn(SplitOn(seg, "<input>")[2], "</input>")[1], blocks) >>
                   \o ParseSegments(Tail(segments), blocks)

\* _parse_tool_calls: ai_response.split("<tool>")[1:], then the loop
ParseToolCalls(blocks) == ParseSegments(Tail(SplitOn(Render(blocks), "<tool>")), blocks)

\* "<tool>" in ai_response and "</tool>" in ai_response
HasToolTags(resp) == Has(Render(resp.inline), "<tool>") /\ Has(Render(resp.inline), "</tool>")

----------------------------------------------------------------------------
(* is_placeholder_flag (main.py) *)

Letters ==
    {"a", "b", "c", "d", "e", "f", "g", "h", "i", "j", "k", "l", "m", "n", "o", "p", "q",
     "r", "s", "t", "u", "v", "w", "x", "y", "z"}
Uppers == {"P", "I", "C", "O", "T", "F", "L", "A", "G", "X"}
Digits == {"0", "1", "2", "3", "4", "5", "6", "7", "8", "9"}

\* [a-zA-Z0-9_]
WordChars == Letters \cup Uppers \cup Digits \cup {"_"}

MinBodyLen == 3     \* len(content_text) < 3
MaxBodyLen == 100   \* len(content_text) > 100
MinXs == 4          \* [Xx]{4,}
MinSpecial == 3     \* [^a-zA-Z0-9_]{3,}

\* the literal bodies of invalid_patterns, in lower case
LiteralBodies ==
    { << ".", ".", "." >>,
      << "c", "o", "n", "t", "e", "n", "t" >>,
      << "{", ".", ".", ".", "}" >>,
      << "f", "l", "a", "g" >>,
      << "y", "o", "u", "r", "_", "f", "l", "a", "g" >> }

\* the words of the patterns [^}]*word[^}]*
ContainedWords ==
    { << "p", "l", "a", "c", "e", "h", "o", "l", "d", "e", "r" >>,
      << "e", "x", "a", "m", "p", "l", "e" >>,
      << "t", "e", "m", "p", "l", "a", "t", "e" >> }

PicoCtfBrace == Pico \o << "c", "t", "f", "{" >>

\* the positions where picoCTF\{ matches with re.IGNORECASE
Starts(low) == {i \in 1..Len(low) : At(low, i, PicoCtfBrace)}

\* picoCTF\{body\} for a literal body
MatchesLiteral(low, w) ==
    \E i \in Starts(low) : At(low, i + Len(PicoCtfBrace), w \o << "}" >>)

\* picoCTF\{[class]{min,}\}: a run of at least min characters that are in
\* the set (inside) or not in it (~inside), then "}"
MatchesRun(low, set, inside, min) ==
    \E i \in Starts(low) :
        \E n \in min..Len(low) :
            LET b == i + Len(PicoCtfBrace) IN
            /\ b + n <= Len(low)
            /\ low[b + n] = "}"
            /\ \A k \in 0..(n-1) : (low[b + k] \in set) = inside

\* picoCTF\{[^}]*word[^}]*\}
MatchesContained(low, w) ==
    \E i \in Starts(low) :
        LET b == i + Len(PicoCtfBrace)
            e == CloseFrom(low, b)
        IN  e # 0 /\ \E k \in b..(e - Len(w)) : At(low, k, w)

\* any(re.search(pattern, flag, re.IGNORECASE) for pattern in invalid_patterns)
MatchesInvalidPattern(flag) ==
    LET low == LowerChars(flag) IN
    \/ \E w \in LiteralBodies : MatchesLiteral(low, w)
    \/ MatchesRun(low, {"x"}, TRUE, MinXs)
    \/ MatchesRun(low, WordChars, FALSE, MinSpecial)
    \/ \E w \in ContainedWords : MatchesContained(low, w)

\* content = re.search(r'picoCTF\{([^}]+)\}', flag): len(content.group(1)), -1
\* when there is no match
ContentLen(flag) ==
    IF SearchStrict(flag) = << >> THEN -1
    ELSE Len(SearchStrict(flag)) - Len(PicoCtfBrace) - 1

is_placeholder_flag(flag) ==
    \/ MatchesInvalidPattern(flag)
    \/ /\ ContentLen(flag) # -1
       /\ ContentLen(flag) < MinBodyLen \/ ContentLen(flag) > MaxBodyLen

----------------------------------------------------------------------------
(* Context Optimizer (context_optimizer.py) *)

full_context_interval == 5
max_recent_tasks == 3
FewTasks == 3           \* task_count <= 3
PreviewCap == 80        \* the "latest result" threshold and the recent summary's preview
DisplayCap == 80        \* get_display_tree: result[:80] + "..."
ImportantLen == 200     \* _is_important_result: len(result) > 200

SeqToSet(s) == {s[i] : i \in 1..Len(s)}

\* should_send_full_context
ShouldSendFullFewTasksStrict(round, task_count, recent_results) ==
    \/ round % full_context_interval = 0
    \/ task_count < FewTasks
    \/ \E i \in 1..Len(recent_results) :
          /\ Length(recent_results[i]) > 0
          /\ MatchesGoalToken(recent_results[i]) \/ HasErrorWord(recent_results[i])

ShouldSendFullContext(round, task_count, recent_results) ==
    \/ round % full_context_interval = 0
    \/ task_count <= FewTasks
    \/ \E i \in 1..Len(recent_results) :
          /\ Length(recent_results[i]) > 0
          /\ MatchesGoalToken(recent_results[i]) \/ HasErrorWord(recent_results[i])

\* _is_important_result
IsImportantResult(t) ==
    /\ Length(t) > 0
    /\ \/ MatchesGoalToken(t)
       \/ HasErrorWord(t)
       \/ Length(t) > ImportantLen

\* result_prefix in tree_result, with result_prefix = result[:80].strip(): the
\* stored text holds the first 80 characters of the result
PrefixIn(result, stored) ==
    LET pre == Strip(Slice(result, PreviewCap)) IN
    \/ Length(pre) = 0
    \/ /\ stored.txt = pre.txt
       /\ stored.err = pre.err
       /\ stored.len >= pre.len

\* _is_truncated_in_tree
IsTruncatedInTree(result, recent_tasks) ==
    \E i \in 1..Len(recent_tasks) :
        \E j \in 1..Len(recent_tasks[i].subtasks) :
            LET stored == recent_tasks[i].subtasks[j].result IN
            /\ Length(stored) > 0
            /\ PrefixIn(result, stored)
            /\ Length(result) > Length(stored)

\* s[-n:]
LastN(s, n) == IF Len(s) <= n THEN s ELSE SubSeq(s, Len(s) - n + 1, Len(s))

RECURSIVE SelectSeq2(_, _)
SelectSeq2(s, keep) ==
    IF s = << >> THEN << >>
    ELSE IF keep[1] THEN << Head(s) >> \o SelectSeq2(Tail(s), Tail(keep))
         ELSE SelectSeq2(Tail(s), Tail(keep))

\* _get_truncated_important_results
TruncatedImportantResults(ts, recent_results) ==
    IF recent_results = << >> THEN << >>
    ELSE LET recent_tasks == LastN(ts, 2)
             latest == recent_results[Len(recent_results)]
             first == IF /\ Length(Strip(latest)) > PreviewCap
                         /\ IsTruncatedInTree(latest, recent_tasks)
                      THEN << latest >> ELSE << >>
             \* recent_results[-3:-1]
             earlier == LastN(SubSeq(recent_results, 1, Len(recent_results) - 1), 2)
             keep == [i \in 1..Len(earlier) |->
                         /\ Length(Strip(earlier[i])) > PreviewCap
                         /\ IsImportantResult(earlier[i])
                         /\ IsTruncatedInTree(earlier[i], recent_tasks)]
         IN  first \o SelectSeq2(earlier, keep)

\* get_display_tree: the result previews it shows, one per subtask that is
\* not of the task-reporting tool
RECURSIVE SubtaskPreviews(_)
SubtaskPreviews(subs) ==
    IF subs = << >> THEN << >>
    ELSE (IF Head(subs).tool = TaskManagerName THEN << >>
          ELSE << Truncate(Head(subs).result, DisplayCap) >>)
         \o SubtaskPreviews(Tail(subs))

RECURSIVE TreePreviews(_)
TreePreviews(ts) ==
    IF ts = << >> THEN << >>
    ELSE SubtaskPreviews(Head(ts).subtasks) \o TreePreviews(Tail(ts))

\* _get_recent_summary: the preview of the last subtask of each recent task
RECURSIVE RecentPreviews(_)
RecentPreviews(ts) ==
    IF ts = << >> THEN << >>
    ELSE LET subs == Head(ts).subtasks
             last == subs[Len(subs)].result
         IN  (IF subs # << >> /\ NonBlank(last)
              THEN << Truncate(last, PreviewCap) >> ELSE << >>)
             \o RecentPreviews(Tail(ts))

TaskIds(ts) == [i \in 1..Len(ts) |-> ts[i].id]

\* the number of characters of str(n), for the ids of the model
DigitsOf(n) == IF n < 0 \/ n >= 10 THEN 2 ELSE 1

\* len("\n".join(lines)), from the lengths of the lines
JoinedLen(lens) == IF lens = << >> THEN 0 ELSE SumSeq(lens) + Len(lens) - 1

\* f"{status_icon} {task_id}. {description}": the icon has 3 characters
TaskLineLen(task) == 3 + 1 + DigitsOf(task.id) + 2 + Len(task.description)

\* f"    {subtask_id}. Used {tool_name} {subtask_status} - {result}", the
\* result cut to 80 characters; subtasks of the task-reporting tool are skipped
RECURSIVE SubtaskLineLens(_)
SubtaskLineLens(subs) ==
    IF subs = << >> THEN << >>
    ELSE (IF Head(subs).tool = TaskManagerName THEN << >>
          ELSE << 4 + DigitsOf(Head(subs).id) + 7 + Len(Head(subs).tool) + 1 + 1 + 3
                  + Length(Truncate(Head(subs).result, DisplayCap)) >>)
         \o SubtaskLineLens(Tail(subs))

RECURSIVE DisplayLineLens(_)
DisplayLineLens(ts) ==
    IF ts = << >> THEN << >>
    ELSE << TaskLineLen(Head(ts)) >> \o SubtaskLineLens(Head(ts).subtasks)
         \o DisplayLineLens(Tail(ts))

\* len(task_tree.get_tree_display()): "📋 No tasks yet", or the header
\* f"📋 {title} - Task Progress", "=" * 50 and the lines of the tasks
DisplayLen(title, ts) ==
    IF ts = << >> THEN 14
    ELSE JoinedLen(<< Len(title) + 18, 50 >> \o DisplayLineLens(ts))

\* the lines of _get_recent_summary: a task line and, when the last subtask has
\* a non-blank result, f"   -> {clean_result}" with the result cut to 80 characters
RECURSIVE RecentLineLens(_)
RecentLineLens(ts) ==
    IF ts = << >> THEN << >>
    ELSE LET subs == Head(ts).subtasks
             last == subs[Len(subs)].result
         IN  << TaskLineLen(Head(ts)) >>
             \o (IF subs # << >> /\ NonBlank(last)
                 THEN << 6 + Length(Truncate(last, PreviewCap)) >> ELSE << >>)
             \o RecentLineLens(Tail(ts))

\* len(self._get_recent_summary(task_tree, recent_results))
RecentLen(ts) ==
    IF ts = << >> THEN 22     \* "No tasks completed yet"
    ELSE JoinedLen(RecentLineLens(LastN(ts, max_recent_tasks)))

EmptyContentLen == 21       \* len("No tasks recorded yet")
EmptyTokenEstimate == 20    \* "token_estimate": 20

\* get_optimized_task_context
EmptySnapshot ==
    [context_type |-> "empty", tasks_shown |-> << >>, previews |-> << >>,
     truncated_results |-> << >>,
     content_len |-> EmptyContentLen, token_estimate |-> EmptyTokenEstimate]

GetOptimizedTaskContext(exists, ts, round, recent_results) ==
    IF ~exists THEN EmptySnapshot
    ELSE IF ShouldSendFullContext(round, Len(ts), recent_results)
    THEN [context_type |-> "full", tasks_shown |-> TaskIds(ts),
          previews |-> TreePreviews(ts),
          truncated_results |-> TruncatedImportantResults(ts, recent_results),
          content_len |-> DisplayLen(challenge_title, ts),
          token_estimate |-> DisplayLen(challenge_title, ts) \div 4]
    ELSE [context_type |-> "recent", tasks_shown |-> TaskIds(LastN(ts, max_recent_tasks)),
          previews |-> RecentPreviews(LastN(ts, max_recent_tasks)),
          truncated_results |-> << >>,
          content_len |-> RecentLen(ts),
          token_estimate |-> RecentLen(ts) \div 4]

----------------------------------------------------------------------------
(* Round Controller (ctf_agent.py, class CTFAgent) *)

TokenCeiling == 120000      \* estimated_tokens > 120000
InputCapChars == 100000     \* len(user_input) > 100000
MarkerLen == 70             \* the truncation marker appended to a cut input
KeepMessages == 10          \* chat_messages[-10:]
CharsPerToken == 4

\* estimated_tokens = len(user_input + all message contents) // 4
EstimatedTokens(input_len, messages) == (input_len + SumSeq(messages)) \div CharsPerToken

\* the input handed to the model
SentInputLen(input_len, messages) ==
    IF EstimatedTokens(input_len, messages) > TokenCeiling /\ input_len > InputCapChars
    THEN InputCapChars + MarkerLen
    ELSE input_len

\* the chat history handed to the model
SentMessagesKeepAll(input_len, messages) == messages

SentMessages(input_len, messages) ==
    IF EstimatedTokens(input_len, messages) > TokenCeiling /\ Len(messages) > KeepMessages
    THEN LastN(messages, KeepMessages)
    ELSE messages

\* list(dict.fromkeys(candidates))
RECURSIVE Dedupe(_)
Dedupe(s) ==
    IF s = << >> THEN << >>
    ELSE LET front == Dedupe(SubSeq(s, 1, Len(s) - 1))
             x == s[Len(s)]
         IN  IF x \in SeqToSet(front) THEN front ELSE Append(front, x)

RECURSIVE ResultCandidates(_)
ResultCandidates(results) ==
    IF results = << >> THEN << >>
    ELSE (IF MatchesGoalToken(Head(results)) THEN << Candidate >> ELSE << >>)
         \o ResultCandidates(Tail(results))

\* re.findall on all_text = ai_response + " " + " ".join(tool_results)
Candidates(resp, tool_results) == FindAll(resp.chars) \o ResultCandidates(tool_results)

\* _detect_flags: last_flag_candidate after it
DetectFlagsClearing(previous, resp, tool_results) ==
    LET unique == Dedupe(Candidates(resp, tool_results)) IN
    IF unique # << >> THEN unique[Len(unique)] ELSE << >>

DetectFlags(previous, resp, tool_results) ==
    LET unique == Dedupe(Candidates(resp, tool_results)) IN
    IF unique # << >> THEN unique[Len(unique)] ELSE previous

\* the structured call records of a response, each normalised and attached
RECURSIVE StepResults(_)
StepResults(steps) ==
    IF steps = << >> THEN << >>
    ELSE << ParseToolResult(Head(steps).obs) >> \o StepResults(Tail(steps))

RECURSIVE CallResults(_)
CallResults(calls) ==
    IF calls = << >> THEN << >>
    ELSE << ExecuteTool(Head(calls)) >> \o CallResults(Tail(calls))

ToolNames(calls) == [i \in 1..Len(calls) |-> calls[i].tool]

AttachFirstOnly(tree, calls, results) ==
    IF calls = << >> THEN tree
    ELSE AddToolResult(tree, Head(calls).tool, Head(calls).input, Head(results))

RECURSIVE AttachAll(_, _, _)
AttachAll(tree, calls, results) ==
    IF calls = << >> THEN tree
    ELSE AttachAll(AddToolResult(tree, Head(calls).tool, Head(calls).input, Head(results)),
                   Tail(calls), Tail(results))

\* the structured call records a round processes: if len(step) >= 2
RECURSIVE ProcessedSteps(_)
ProcessedSteps(steps) ==
    IF steps = << >> THEN << >>
    ELSE (IF Head(steps).pair THEN << Head(steps) >> ELSE << >>)
         \o ProcessedSteps(Tail(steps))

\* the inline calls a round dispatches: if not tools_used and the tags are there
InlineDispatchedAlways(resp) ==
    IF HasToolTags(resp) THEN ParseToolCalls(resp.inline) ELSE << >>

InlineDispatched(resp) ==
    IF ProcessedSteps(resp.steps) = << >> /\ HasToolTags(resp)
    THEN ParseToolCalls(resp.inline)
    ELSE << >>

\* the calls of a round in the order of tools_used, and their results in the
\* order of tool_results
RoundCalls(resp) == ProcessedSteps(resp.steps) \o InlineDispatched(resp)

RoundResults(resp) ==
    StepResults(ProcessedSteps(resp.steps)) \o CallResults(InlineDispatched(resp))

\* get_continue_prompt: the results it hands to the prompt template
RECURSIVE KeepSendable(_)
KeepSendable(results) ==
    IF results = << >> THEN << >>
    ELSE (IF NonBlank(Head(results)) /\ ~StartsWithSuccess(Head(results))
          THEN << Head(results) >> ELSE << >>)
         \o KeepSendable(Tail(results))

RECURSIVE Without(_, _)
Without(results, x) ==
    IF results = << >> THEN << >>
    ELSE (IF Head(results) # x THEN << Head(results) >> ELSE << >>) \o Without(Tail(results), x)

FilteredResults(ctx, tool_results) ==
    IF tool_results = << >> THEN << >>
    ELSE LET latest == tool_results[Len(tool_results)]
             first == KeepSendable(<< latest >>)
         IN  CASE ctx.context_type = "recent" ->
                    first \o KeepSendable(SubSeq(tool_results, 1, Len(tool_results) - 1))
               [] ctx.context_type = "full" ->
                    first \o Without(ctx.truncated_results, latest)
               [] OTHER -> first

NoRet == [kind |-> "none", round |-> 0]
NoSent == [round |-> 0, estimate |-> 0, input_len |-> 0, given_len |-> 0, history |-> << >>,
           history_before |-> << >>]
NoPrompt == [built |-> FALSE]
NoAttach == [tool |-> "none", before |-> << >>, after |-> << >>]
NoCandidate == << >>
NoDispatch == [structured |-> << >>, blocks |-> << >>, inline |-> << >>, matches |-> << >>]
NoFile == [written |-> FALSE, content |-> << >>]
NoSession ==
    [pc |-> "none", mode |-> "none", response |-> << >>, last_human_input |-> << >>,
     conv_flag |-> << >>, offered |-> << >>, final_flag |-> << >>, rejected |-> FALSE,
     input |-> "initial", after_rejection |-> FALSE, env |-> "short"]
NoScan == [op |-> "none"]

CurrentTree == Tree(tasks, current_task_id)

\* the task tree of a round: extract_tasks_from_response(ai_response), then
\* add_tool_result for each dispatched call
RoundTreeAttachFirst(tree0, resp) ==
    ExtractTasks(AttachAll(tree0, RoundCalls(resp), RoundResults(resp)), resp)

RoundTree(tree0, resp) ==
    AttachAll(ExtractTasks(tree0, resp), RoundCalls(resp), RoundResults(resp))

\* the task tree of a round whose model call raises: agent.invoke comes before
\* extract_tasks_from_response
FailedRoundTreeExtracted(tree0, resp) == ExtractTasks(tree0, resp)

FailedRoundTree(tree0, resp) == tree0

\* except Exception as e: return f"Round {self.current_round} failed: {str(e)}"
RoundFailedReraises(round) == [kind |-> "raised", round |-> round]

RoundFailed(round) == [kind |-> "error", round |-> round]

\* self.conversation_history.append(round_record)
AppendRoundKeepRecent(history, record) == LastN(Append(history, record), KeepMessages \div 2)

AppendRound(history, record) == Append(history, record)

\* interact, from a session whose round counter is round0 and whose tree is tree0;
\* save_ok says whether the write of the task tree file succeeds
InteractFrom(round0, title, exists, tree0, log0, input_len, source, resp, fail, save_ok) ==
    LET round == round0 + 1
        input_sent == SentInputLen(input_len, chat_messages)
        history_sent == SentMessages(input_len, chat_messages)
        calls == RoundCalls(resp)
        results == RoundResults(resp)
        tree2 == IF exists THEN RoundTree(tree0, resp) ELSE tree0
    IN  /\ current_round' = round
        /\ has_tree' = exists
        /\ challenge_title' = title
        /\ sent' = [round |-> round,
                    estimate |-> EstimatedTokens(input_len, chat_messages),
                    input_len |-> input_sent, given_len |-> input_len,
                    history |-> history_sent, history_before |-> chat_messages]
        /\ IF fail
           THEN /\ ret' = RoundFailed(round)
                /\ chat_messages' = history_sent
                /\ tasks' = FailedRoundTree(tree0, resp).tasks
                /\ current_task_id' = FailedRoundTree(tree0, resp).current_task_id
                /\ dispatched' = NoDispatch
                /\ UNCHANGED << conversation_history, last_tool_results, last_flag_candidate,
                                saved_tree >>
           ELSE /\ ret' = [kind |-> "response", round |-> round]
                /\ dispatched' = [structured |-> ProcessedSteps(resp.steps),
                                  blocks |-> resp.inline,
                                  inline |-> InlineDispatched(resp),
                                  matches |-> Candidates(resp, results)]
                /\ saved_tree' = IF exists /\ save_ok THEN TreeFile(title, tree2)
                                  ELSE saved_tree
                /\ tasks' = tree2.tasks
                /\ current_task_id' = tree2.current_task_id
                /\ last_flag_candidate' = DetectFlags(last_flag_candidate, resp, results)
                /\ last_tool_results' = results
                /\ chat_messages' = history_sent \o << input_sent, resp.len >>
                /\ conversation_history' =
                      AppendRound(conversation_history,
                                  [round_number |-> round, input_len |-> input_sent,
                                   output_len |-> resp.len, tools_used |-> ToolNames(calls),
                                   input_source |-> source])
        /\ n_calls' = n_calls + 1
        /\ directive_log' = IF fail \/ ~exists THEN log0 ELSE LogExtract(log0, tree0, resp)
        /\ prompt' = NoPrompt
        /\ UNCHANGED last_attach

----------------------------------------------------------------------------
(* Inputs *)

Arrow(id, description, status) == [id |-> id, description |-> description, status |-> status]
Update(task_id, description, status) ==
    [task_id |-> task_id, description |-> description, status |-> status]
Payload(kind, updates) == [kind |-> kind, updates |-> updates]
NoPayload == Payload("none", << >>)
Obs(kind, body) == [kind |-> kind, body |-> body]
NoInput == Text("in", 30)

\* <tool>NAME</tool><input>..</input> in the model text, and what the tool does
Call(tool, obs) ==
    [tool |-> tool, input |-> NoInput, closed_tool |-> TRUE, closed_input |-> TRUE,
     payload |-> NoPayload, raises |-> FALSE, obs |-> obs]

\* an inline call of the task-reporting tool: TaskManager._run answers with a
\* JSON object that has success true and no output field
ReportCall(payload) ==
    [Call(TaskManagerName, Obs("json_ok", EmptyText)) EXCEPT !.payload = payload]

\* a structured call record (action, observation)
Step(tool, obs) == [tool |-> tool, input |-> NoInput, obs |-> obs, pair |-> TRUE]

\* a structured call record of the task-reporting tool: the executor ran
\* TaskManager._run on the payload
ReportStep(payload) ==
    [tool |-> TaskManagerName, input |-> NoInput, obs |-> Obs("json_ok", EmptyText),
     pair |-> TRUE, payload |-> payload]

Resp(arrows, inline, steps, chars) ==
    [len |-> 500, arrows |-> arrows, inline |-> inline, steps |-> steps, chars |-> chars]

PlainResp == Resp(<< >>, << >>, << >>, << >>)

LongOut == Text("out", 600)
EdgeOut == Text("out", 502)
ShortOut == Text("out", 40)

OneCall(o) == Resp(<< >>, << Call("code_executor", o) >>, << >>, << >>)

RoundResponses ==
    { PlainResp,
      Resp(<< Arrow(1, "recon", "in-progress") >>, << >>, << >>, << >>),
      Resp(<< Arrow(1, "recon", "COMPLETED") >>, << >>, << >>, << >>),
      Resp(<< Arrow(0, "recon", "in-progress"), Arrow(1, "decode", "pending"),
              Arrow(2, "decode", "pending"), Arrow(3, "decode", "pending") >>,
           << >>, << >>, << >>),
      Resp(<< Arrow(1, "recon", "completed") >>, << >>, << >>, Candidate),
      Resp(<< >>, << >>, << >>, Candidate \o OtherCandidate \o Candidate),
      OneCall(Obs("plain", LongOut)),
      OneCall(Obs("json_ok", EdgeOut)),
      OneCall(Obs("json_fail", ShortOut)),
      OneCall(Obs("plain", Text("succ", 120))),
      OneCall(Obs("quoted", Text("ws", 5))),
      Resp(<< >>, << [Call("code_executor", Obs("plain", ShortOut)) EXCEPT !.closed_input = FALSE],
                     Call("file_reader", Obs("plain", Text("trace", 300))),
                     Call("code_executor", Obs("plain", LongOut)) >>, << >>, << >>),
      Resp(<< >>, << Call("nmap", Obs("plain", ShortOut)),
                     [Call("code_executor", Obs("plain", ShortOut)) EXCEPT !.raises = TRUE],
                     Call("file_reader", Obs("plain", ShortOut)) >>,
           << >>, << >>),
      Resp(<< >>, << ReportCall(Payload("ok", << Update(NoId, "recon", "in-progress"),
                                                 Update(NoId, "decode", "pending") >>)),
                     Call("code_executor", Obs("bytes", Text("flag", 90))) >>,
           << >>, << >>),
      Resp(<< >>, << Call("code_executor", Obs("plain", ShortOut)) >>,
           << Step("file_reader", Obs("json_ok", LongOut)) >>, << >>),
      Resp(<< >>, << Call("code_executor", Obs("plain", ShortOut)) >>,
           << [Step("file_reader", Obs("json_ok", LongOut)) EXCEPT !.pair = FALSE] >>, << >>),
      Resp(<< >>, << Call("file_reader", Obs("plain", ShortOut)),
                     [Call("code_executor", Obs("plain", LongOut)) EXCEPT !.closed_tool = FALSE],
                     [Call("nmap", Obs("plain", ShortOut)) EXCEPT !.closed_input = FALSE],
                     Call("code_executor", Obs("json_fail", Text("Command timeout", 15))) >>,
           << >>, << >>) }

InputLens == {1000}
ValveInputLens == {1000, 150000, 500000}

----------------------------------------------------------------------------
(* The session: CTFAgent.__init__, start_challenge, interact,               *)
(* get_continue_prompt                                                      *)

Init ==
    /\ has_tree = FALSE
    /\ challenge_title = DefaultTitle
    /\ tasks = << >>
    /\ current_task_id = 0
    /\ current_round = 0
    /\ conversation_history = << >>
    /\ chat_messages = << >>
    /\ last_tool_results = << >>
    /\ last_flag_candidate = NoCandidate
    /\ ret = NoRet
    /\ sent = NoSent
    /\ prompt = NoPrompt
    /\ directive_log = << >>
    /\ last_attach = NoAttach
    /\ n_calls = 0
    /\ dispatched = NoDispatch
    /\ saved_tree = NoTreeFile
    /\ saved_history = NoFile
    /\ session = NoSession
    /\ scan = NoScan

\* what the agent's methods leave alone
OutsideAgent == UNCHANGED << saved_history, session, scan >>

StartChallenge ==
    /\ n_calls = 0
    /\ \E resp \in RoundResponses, fail \in BOOLEAN, input_len \in InputLens :
          InteractFrom(0, ChallengeTitle, TRUE, NewTree, << >>, input_len, "agent", resp, fail, TRUE)
    /\ OutsideAgent

Interact ==
    /\ n_calls > 0
    /\ n_calls < MaxRounds
    /\ \E resp \in RoundResponses, fail \in BOOLEAN, input_len \in InputLens :
          InteractFrom(current_round, challenge_title, has_tree, CurrentTree, directive_log, input_len, "agent", resp, fail, TRUE)
    /\ OutsideAgent

\* get_continue_prompt(response, agent.last_tool_results)
GetContinuePrompt ==
    /\ ~prompt.built
    /\ LET ctx == GetOptimizedTaskContext(has_tree, tasks, current_round, last_tool_results) IN
       prompt' = [built |-> TRUE, round |-> current_round, task_count |-> Len(tasks),
                  tool_results |-> last_tool_results, context |-> ctx,
                  results |-> FilteredResults(ctx, last_tool_results)]
    /\ UNCHANGED << has_tree, challenge_title, tasks, current_task_id, current_round, conversation_history,
                    chat_messages, last_tool_results, last_flag_candidate, ret, sent,
                    directive_log, last_attach, n_calls, dispatched, saved_tree,
                    saved_history, session, scan >>

Next == StartChallenge \/ Interact \/ GetContinuePrompt

Spec == Init /\ [][Next]_vars

----------------------------------------------------------------------------
(* The oversize safety valve of interact, over long sessions with large inputs *)

ValveStart ==
    /\ n_calls = 0
    /\ \E fail \in BOOLEAN, input_len \in ValveInputLens :
          InteractFrom(0, ChallengeTitle, TRUE, NewTree, << >>, input_len, "agent", PlainResp, fail, TRUE)
    /\ OutsideAgent

ValveInteract ==
    /\ n_calls > 0
    /\ n_calls < MaxValveRounds
    /\ \E fail \in BOOLEAN, input_len \in ValveInputLens :
          InteractFrom(current_round, challenge_title, has_tree, CurrentTree, directive_log, input_len,
                       "agent", PlainResp, fail, TRUE)
    /\ OutsideAgent

\* start_challenge called again on the agent of a running session
ValveRestart ==
    /\ n_calls > 0
    /\ n_calls < MaxValveRounds
    /\ \E fail \in BOOLEAN :
          InteractFrom(0, ChallengeTitle, TRUE, NewTree, << >>, 1000, "agent", PlainResp, fail, TRUE)
    /\ OutsideAgent

NextValve == ValveStart \/ ValveInteract \/ ValveRestart

SpecValve == Init /\ [][NextValve]_vars

----------------------------------------------------------------------------
(* One agent under any sequence of start_challenge and interact calls, with
   failing model calls, failing tools and failing writes of the task tree file *)

AgentResponses ==
    { PlainResp,
      Resp(<< Arrow(1, "recon", "in-progress") >>, << >>, << >>, << >>),
      Resp(<< >>, << Call("nmap", Obs("plain", ShortOut)),
                     [Call("code_executor", Obs("plain", ShortOut)) EXCEPT !.raises = TRUE],
                     Call("file_reader", Obs("plain", ShortOut)) >>,
           << >>, << >>),
      OneCall(Obs("json_fail", ShortOut)) }

AgentStartChallenge ==
    /\ n_calls < MaxAgentCalls
    /\ \E resp \in AgentResponses, fail \in BOOLEAN, save_ok \in BOOLEAN :
          InteractFrom(0, ChallengeTitle, TRUE, NewTree, << >>, 1000, "agent", resp, fail, save_ok)
    /\ OutsideAgent

AgentInteract ==
    /\ n_calls > 0
    /\ n_calls < MaxAgentCalls
    /\ \E resp \in AgentResponses, fail \in BOOLEAN, save_ok \in BOOLEAN,
          source \in {"agent", "human"} :
          InteractFrom(current_round, challenge_title, has_tree, CurrentTree, directive_log, 1000,
                       source, resp, fail, save_ok)
    /\ OutsideAgent

NextAgent == AgentStartChallenge \/ AgentInteract

SpecAgent == Init /\ [][NextAgent]_vars

----------------------------------------------------------------------------
(* Rounds whose model text both reports on tasks and calls tools *)

OrderResponses ==
    { Resp(<< Arrow(1, "recon", "in-progress") >>,
           << Call("code_executor", Obs("plain", ShortOut)),
              Call("file_reader", Obs("plain", LongOut)) >>, << >>, << >>),
      Resp(<< Arrow(2, "decode", "In-Progress") >>,
           << Call("code_executor", Obs("plain", ShortOut)) >>, << >>, Candidate),
      Resp(<< Arrow(1, "recon", "completed"), Arrow(2, "decode", "in-progress") >>,
           << >>, << Step("file_reader", Obs("json_ok", ShortOut)) >>, << >>),
      Resp(<< >>, << ReportCall(Payload("ok", << Update(1, "recon", "in-progress") >>)),
                     Call("code_executor", Obs("plain", ShortOut)) >>, << >>, << >>),
      Resp(<< Arrow(2, "decode", "completed") >>, << >>, << >>, << >>),
      Resp(<< >>, << >>,
           << ReportStep(Payload("ok", << Update(2, "decode", "completed") >>)) >>, << >>),
      Resp(<< Arrow(1, "recon", "in-progress") >>,
           << ReportCall(Payload("ok", << Update(2, "decode", "completed") >>)) >>,
           << >>, << >>) }

\* one successful round on the response resp
OrderRound(resp) ==
    IF n_calls = 0
    THEN InteractFrom(0, ChallengeTitle, TRUE, NewTree, << >>, 1000, "agent", resp, FALSE, TRUE)
    ELSE InteractFrom(current_round, challenge_title, has_tree, CurrentTree, directive_log, 1000,
                      "agent", resp, FALSE, TRUE)

OrderStartChallenge ==
    /\ n_calls = 0
    /\ \E resp \in OrderResponses, fail \in BOOLEAN :
          InteractFrom(0, ChallengeTitle, TRUE, NewTree, << >>, 1000, "agent", resp, fail, TRUE)
    /\ OutsideAgent

OrderInteract ==
    /\ n_calls > 0
    /\ n_calls < MaxOrderRounds
    /\ \E resp \in OrderResponses, fail \in BOOLEAN :
          InteractFrom(current_round, challenge_title, has_tree, CurrentTree, directive_log, 1000,
                       "agent", resp, fail, TRUE)
    /\ OutsideAgent

NextOrder == OrderStartChallenge \/ OrderInteract

SpecOrder == Init /\ [][NextOrder]_vars

----------------------------------------------------------------------------
(* Properties of the round counter and the ledger *)

\* C1: the round_number fields of the records of conversation_history are
\* 1, 2, 3, ... in order, also when some model calls of the session failed
C1_RoundNumbersContiguous ==
    \A i \in 1..Len(conversation_history) : conversation_history[i].round_number = i

\* C2: a round whose model call failed returns an error string, consumes its
\* round number and still has its record appended to the ledger
C2_FailedRoundRecorded ==
    ret.kind = "error" =>
        /\ ret.round = current_round
        /\ conversation_history # << >>
        /\ conversation_history[Len(conversation_history)].round_number = ret.round

\* C10 as stated: over the ceiling, the input sent has at most 100,000
\* characters and the history sent at most 10 entries
C10_InputAtMostCap ==
    sent.estimate > TokenCeiling =>
        /\ sent.input_len <= InputCapChars
        /\ Len(sent.history) <= KeepMessages

\* C10 amended: over the ceiling, the input sent has at most 100,000 characters
\* of the input plus the truncation marker, the history sent is the last 10
\* entries of the history (all of it when it has no more than 10), and a round
\* whose model call answered is recorded with the input that was sent
C10_ValveBounds ==
    sent.estimate > TokenCeiling =>
        /\ sent.input_len <= InputCapChars + MarkerLen
        /\ sent.input_len <= sent.given_len
        /\ Len(sent.history) <= KeepMessages
        /\ sent.history = LastN(sent.history_before, KeepMessages)
        /\ ret.kind = "response" =>
              /\ conversation_history[Len(conversation_history)].round_number = sent.round
              /\ conversation_history[Len(conversation_history)].input_len = sent.input_len

C10_Witness ==
    /\ sent.estimate > TokenCeiling
    /\ sent.given_len > InputCapChars
    /\ sent.input_len = InputCapChars + MarkerLen
    /\ Len(sent.history_before) > KeepMessages
    /\ ret.kind = "response"

----------------------------------------------------------------------------
(* Properties of the tool calls of a round *)

LastRecord == conversation_history[Len(conversation_history)]

\* C11: in a round that processed a structured call record no inline markup
\* is dispatched; the tools of a round come from one channel, each call it
\* dispatched gave one result, and no block of the text was dispatched twice
C11_OneChannel ==
    ret.kind = "response" =>
        /\ dispatched.inline # << >> => dispatched.structured = << >>
        /\ dispatched.structured # << >> =>
              /\ dispatched.inline = << >>
              /\ LastRecord.tools_used = ToolNames(dispatched.structured)
        /\ dispatched.structured = << >> =>
              LastRecord.tools_used = ToolNames(dispatched.inline)
        /\ Len(last_tool_results) = Len(dispatched.structured) + Len(dispatched.inline)
        /\ Len(dispatched.inline) <= Len(dispatched.blocks)

C11_Witness ==
    /\ ret.kind = "response"
    /\ Len(dispatched.structured) = 1
    /\ \E i \in 1..Len(dispatched.blocks) :
          dispatched.blocks[i].closed_tool /\ dispatched.blocks[i].closed_input
    /\ dispatched.inline = << >>
    /\ Len(last_tool_results) = 1
    /\ LastRecord.tools_used = << "file_reader" >>

AddedSubtasks(before, after, j) ==
    LET i == IndexOf(before, after[j].id)
        old == IF i # 0 THEN Len(before[i].subtasks) ELSE 0
    IN  [k \in 1..(Len(after[j].subtasks) - old) |->
            [tool |-> after[j].subtasks[old + k].tool,
             result |-> after[j].subtasks[old + k].result]]

\* C34: a successful round records the names of its dispatched calls in
\* tools_used in the order parsed, keeps one result per call in that order, and
\* adds to the tree one subtask per dispatched call of a tool other than the
\* task-reporting tool, in dispatch order, and no other subtask
C34_DispatchInOrder ==
    [][(ret'.kind = "response" /\ n_calls' = n_calls + 1) =>
          LET names == ToolNames(dispatched'.structured) \o ToolNames(dispatched'.inline)
              expected ==
                  SelectSeq2([i \in 1..Len(names) |->
                                 [tool |-> names[i],
                                  result |-> Truncate(last_tool_results'[i], ResultCap)]],
                             [i \in 1..Len(names) |-> names[i] # TaskManagerName])
          IN  /\ Len(last_tool_results') = Len(names)
              /\ conversation_history'[Len(conversation_history')].tools_used = names
              /\ expected = << >> =>
                    \A j \in 1..Len(tasks') : AddedSubtasks(tasks, tasks', j) = << >>
              /\ expected # << >> =>
                    \E j \in 1..Len(tasks') :
                        /\ AddedSubtasks(tasks, tasks', j) = expected
                        /\ \A k \in 1..Len(tasks') :
                              k # j => AddedSubtasks(tasks, tasks', k) = << >>]_vars

\* after two rounds: the first dispatched an unregistered tool, a raising tool
\* and a tool that answered, the second the task-reporting tool and one other
C34_Witness ==
    /\ n_calls = 2
    /\ ret.kind = "response"
    /\ LastRecord.tools_used = << TaskManagerName, "code_executor" >>
    /\ \E i, j \in 1..Len(tasks) :
          /\ [k \in 1..Len(tasks[i].subtasks) |-> tasks[i].subtasks[k].tool]
                = << "nmap", "code_executor", "file_reader" >>
          /\ [k \in 1..Len(tasks[j].subtasks) |-> tasks[j].subtasks[k].tool]
                = << "code_executor" >>

\* the observations of the calls of the round, in the order of their results
RoundObservations ==
    [i \in 1..Len(dispatched.structured) |-> dispatched.structured[i].obs]
    \o [i \in 1..Len(dispatched.inline) |->
           IF dispatched.inline[i].tool \in RegisteredTools /\ ~dispatched.inline[i].raises
           THEN dispatched.inline[i].obs
           ELSE [kind |-> "none", body |-> EmptyText]]

\* C14: a JSON observation with success true gives its trimmed output, with
\* success false "ERROR: " and its error, any other observation is returned
\* trimmed and unwrapped, and no result is the empty string
C14_NormalizedNeverEmpty ==
    ret.kind = "response" =>
        \A i \in 1..Len(last_tool_results) :
            LET o == RoundObservations[i]
                r == last_tool_results[i]
            IN  /\ o.kind = "json_ok" /\ Length(Strip(o.body)) > 0 => r = Strip(o.body)
                /\ o.kind = "json_fail" => r = ErrorOf(o.body)
                /\ o.kind \in {"plain", "quoted", "bytes"} /\ Length(Strip(o.body)) > 0 =>
                      r = Strip(o.body)
                /\ Length(r) > 0

\* C18: after a round whose scanned text holds a goal token,
\* last_flag_candidate is the match that comes last in the scanned text
C18_LastMatchIsCandidate ==
    (ret.kind = "response" /\ dispatched.matches # << >>) =>
        last_flag_candidate = dispatched.matches[Len(dispatched.matches)]

----------------------------------------------------------------------------
(* The Task Tree on its own: a TaskTree just constructed, then any sequence *)
(* of its operations                                                        *)

TreeResponses ==
    { Resp(<< Arrow(i, "recon", "in-progress") >>, << >>, << >>, << >>) : i \in 0..MaxTaskId }
    \cup { Resp(<< Arrow(i, "decode", "COMPLETED") >>, << >>, << >>, << >>) : i \in 0..MaxTaskId }
    \cup { Resp(<< Arrow(1, "recon", "in-progress"), Arrow(1, "decode", "completed") >>,
                << >>, << >>, << >>),
           Resp(<< Arrow(MaxTaskId, "recon", "pending"), Arrow(0, "recon", "failed") >>,
                << >>, << >>, << >>) }
    \cup { Resp(<< >>, << ReportCall(Payload("ok", << Update(id, "recon", "in-progress") >>)) >>,
                << >>, << >>) : id \in {NoId, BadId} \cup 1..MaxTaskId }
    \cup { Resp(<< >>, << ReportCall(Payload("ok", << Update(NoId, "decode", "done") >>)) >>,
                << >>, << >>),
           Resp(<< >>, << ReportCall(Payload("unparseable", << >>)),
                          ReportCall(Payload("ok", << Update(1, "decode", "completed") >>)) >>,
                << >>, << >>),
           Resp(<< >>, << ReportCall(Payload("notobject", << >>)),
                          ReportCall(Payload("ok", << Update(1, "decode", "completed") >>)) >>,
                << >>, << >>),
           Resp(<< >>, << ReportCall(Payload("ok", << Update(1, "recon", "in-progress") >>)),
                          ReportCall(Payload("notobject", << >>)),
                          ReportCall(Payload("ok", << Update(2, "decode", "pending") >>)) >>,
                << >>, << >>),
           Resp(<< >>, << ReportCall(Payload("ok", << Update(NoId, "recon", "in-progress"),
                                                      Update(NoId, "decode", "pending") >>)) >>,
                << >>, << >>),
           Resp(<< Arrow(2, "recon", "In-Progress") >>,
                << ReportCall(Payload("ok", << Update(NoId, "decode", "pending") >>)) >>,
                << >>, << >>) }

TreeToolCalls ==
    { << "code_executor", ShortOut >>, << "code_executor", LongOut >>,
      << TaskManagerName, ShortOut >> }

StatusUpdates == { << "completed", "" >>, << "IN_PROGRESS", "decode" >>, << "done", "" >> }

InitTree ==
    /\ has_tree = TRUE
    /\ challenge_title \in {DefaultTitle, ChallengeTitle}
    /\ tasks = << >>
    /\ current_task_id = 0
    /\ current_round = 0
    /\ conversation_history = << >>
    /\ chat_messages = << >>
    /\ last_tool_results = << >>
    /\ last_flag_candidate = NoCandidate
    /\ ret = NoRet
    /\ sent = NoSent
    /\ prompt = NoPrompt
    /\ directive_log = << >>
    /\ last_attach = NoAttach
    /\ n_calls = 0
    /\ dispatched = NoDispatch
    /\ saved_tree = NoTreeFile
    /\ saved_history = NoFile
    /\ session = NoSession
    /\ scan = NoScan

TreeFrame ==
    UNCHANGED << has_tree, challenge_title, current_round, conversation_history, chat_messages,
                 last_tool_results, last_flag_candidate, ret, sent, prompt, dispatched,
                 saved_tree, saved_history, session, scan >>

\* task_tree.extract_tasks_from_response(ai_response)
ExtractStep ==
    /\ n_calls < MaxOps
    /\ \E resp \in TreeResponses :
          LET tree == ExtractTasks(CurrentTree, resp) IN
          /\ tasks' = tree.tasks
          /\ current_task_id' = tree.current_task_id
          /\ directive_log' = LogExtract(directive_log, CurrentTree, resp)
    /\ last_attach' = NoAttach
    /\ n_calls' = n_calls + 1
    /\ TreeFrame

\* task_tree.add_tool_result(tool_name, tool_input, display_result)
AddToolStep ==
    /\ n_calls < MaxOps
    /\ \E c \in TreeToolCalls :
          LET tree == AddToolResult(CurrentTree, c[1], NoInput, c[2]) IN
          /\ tasks' = tree.tasks
          /\ current_task_id' = tree.current_task_id
          /\ last_attach' = [tool |-> c[1], before |-> tasks, after |-> tree.tasks]
    /\ n_calls' = n_calls + 1
    /\ UNCHANGED directive_log
    /\ TreeFrame

\* task_tree.update_task_status(task_id, status, description)
UpdateStatusStep ==
    /\ n_calls < MaxOps
    /\ \E id \in 0..MaxTaskId, u \in StatusUpdates :
          LET tree == UpdateTaskStatus(CurrentTree, id, u[1], u[2]) IN
          /\ tasks' = tree.tasks
          /\ current_task_id' = tree.current_task_id
    /\ last_attach' = NoAttach
    /\ n_calls' = n_calls + 1
    /\ UNCHANGED directive_log
    /\ TreeFrame

\* task_tree.save_to_file()
SaveToFileStep ==
    /\ n_calls < MaxOps
    /\ saved_tree' = TreeFile(challenge_title, CurrentTree)
    /\ n_calls' = n_calls + 1
    /\ UNCHANGED << has_tree, challenge_title, tasks, current_task_id, current_round,
                    conversation_history, chat_messages, last_tool_results,
                    last_flag_candidate, ret, sent, prompt, directive_log, last_attach,
                    dispatched, saved_history, session, scan >>

\* task_tree.load_from_file(), on this object or on a TaskTree just constructed
LoadFromFileStep ==
    /\ n_calls < MaxOps
    /\ \E fresh \in BOOLEAN :
          LET obj == IF fresh THEN TreeObject(DefaultTitle, NewTree)
                     ELSE TreeObject(challenge_title, CurrentTree)
              loaded == LoadFromFile(obj, saved_tree)
          IN  /\ challenge_title' = loaded.challenge_title
              /\ tasks' = loaded.tasks
              /\ current_task_id' = loaded.current_task_id
    /\ saved_tree' = [saved_tree EXCEPT !.loads = IF saved_tree.written THEN @ + 1 ELSE @]
    /\ last_attach' = NoAttach
    /\ n_calls' = n_calls + 1
    /\ UNCHANGED << has_tree, current_round, conversation_history, chat_messages,
                    last_tool_results, last_flag_candidate, ret, sent, prompt,
                    directive_log, dispatched, saved_history, session, scan >>

NextTree == ExtractStep \/ AddToolStep

SpecTree == InitTree /\ [][NextTree]_vars

NextTreeStatus == ExtractStep \/ AddToolStep \/ UpdateStatusStep

SpecTreeStatus == InitTree /\ [][NextTreeStatus]_vars

NextTreeFile == ExtractStep \/ AddToolStep \/ SaveToFileStep \/ LoadFromFileStep

SpecTreeFile == InitTree /\ [][NextTreeFile]_vars

----------------------------------------------------------------------------
(* Properties of the round boundary, over any sequence of start_challenge and
   interact calls on one agent *)

C26_ErrorReturned ==
    /\ n_calls >= 2
    /\ ret.kind = "error"
    /\ Len(conversation_history) >= 1

\* C27: no two records of conversation_history carry the same round_number,
\* whatever sequence of start_challenge and interact calls the agent serves
C27_RoundNeverReused ==
    \A i, j \in 1..Len(conversation_history) :
        i /= j => conversation_history[i].round_number /= conversation_history[j].round_number

\* C28: every step of a session, the rounds that trim the chat history and the
\* rounds that fail included, leaves the records already in conversation_history
\* in place and unchanged
C28_LedgerAppendOnly ==
    [][/\ Len(conversation_history') >= Len(conversation_history)
       /\ SubSeq(conversation_history', 1, Len(conversation_history)) = conversation_history]_vars

\* a long session: a round failed, the chat history sent to the model was
\* trimmed, and the ledger still holds more records than the chat keeps rounds
C28_Witness ==
    /\ Len(conversation_history) > KeepMessages \div 2
    /\ Len(conversation_history) < n_calls
    /\ Len(sent.history) < Len(sent.history_before)
    /\ \A i \in 1..Len(conversation_history) : conversation_history[i].round_number >= 1

\* C37: a round whose model call fails takes its round number and leaves the
\* task tree, conversation_history, last_tool_results and last_flag_candidate
\* as they were before it
C37_FailedRoundFrame ==
    [][(n_calls' = n_calls + 1 /\ ret'.kind = "error") =>
          /\ current_round' = current_round + 1
          /\ tasks' = tasks
          /\ current_task_id' = current_task_id
          /\ conversation_history' = conversation_history
          /\ last_tool_results' = last_tool_results
          /\ last_flag_candidate' = last_flag_candidate]_vars

\* a failed round after a round that left tasks, tool results and a candidate
C37_Witness ==
    /\ ret.kind = "error"
    /\ n_calls >= 2
    /\ Len(conversation_history) = n_calls - 1
    /\ LastRecord.round_number = current_round - 1
    /\ tasks # << >>
    /\ last_tool_results # << >>
    /\ last_flag_candidate # NoCandidate

\* C36: what a round sends to the model, the input sent and the history sent
\* together, has a token estimate of at most the ceiling of 120,000
C36_SentWithinCeiling ==
    n_calls > 0 => EstimatedTokens(sent.input_len, sent.history) <= TokenCeiling

\* the updates a response submits through the task-reporting tool, as inline
\* markup and as structured call records
RECURSIVE Flatten(_)
Flatten(ss) == IF ss = << >> THEN << >> ELSE Head(ss) \o Flatten(Tail(ss))

InlineReported(resp) ==
    Flatten([i \in 1..Len(JsonPayloads(resp.inline)) |-> JsonPayloads(resp.inline)[i].updates])

StructuredReported(resp) ==
    Flatten([i \in 1..Len(resp.steps) |->
                IF resp.steps[i].tool = TaskManagerName /\ resp.steps[i].pair
                THEN resp.steps[i].payload.updates ELSE << >>])

\* the tree holds a task with the id, description and status of the update
Reflected(ts, u) ==
    \E i \in 1..Len(ts) :
        ts[i].id = u.task_id /\ ts[i].description = u.description /\ ts[i].status = u.status

\* an update submitted as inline markup in a text without arrow directives is
\* in the tree at the end of the round
InlineReportReflected ==
    [][\A resp \in OrderResponses :
          (OrderRound(resp) /\ Len(resp.arrows) = 0) =>
              \A i \in 1..Len(InlineReported(resp)) : Reflected(tasks', InlineReported(resp)[i])]_vars

\* C39: an update submitted through the task-reporting tool, as inline markup
\* or as a structured call record, is in the task tree at the end of the round
C39_ReportedUpdateInTree ==
    [][\A resp \in OrderResponses :
          OrderRound(resp) =>
              /\ \A i \in 1..Len(InlineReported(resp)) :
                    Reflected(tasks', InlineReported(resp)[i])
              /\ \A i \in 1..Len(StructuredReported(resp)) :
                    Reflected(tasks', StructuredReported(resp)[i])]_vars

\* the ids of the tasks a response declares in progress
DeclaredInProgress(resp) ==
    IF Len(resp.arrows) # 0
    THEN { resp.arrows[i].id : i \in { k \in 1..Len(resp.arrows) :
                                          Lower(resp.arrows[k].status) = "in-progress" } }
    ELSE UNION { { p.updates[i].task_id : i \in { k \in 1..Len(p.updates) :
                                                     p.updates[k].status = "in-progress" } } :
                 p \in { JsonPayloads(resp.inline)[n] : n \in 1..Len(JsonPayloads(resp.inline)) } }

\* the subtasks the dispatched calls of a response make: tool and stored result
ExpectedSubtasks(resp) ==
    SelectSeq2([i \in 1..Len(RoundCalls(resp)) |->
                   [tool |-> RoundCalls(resp)[i].tool,
                    result |-> Truncate(RoundResults(resp)[i], ResultCap)]],
               [i \in 1..Len(RoundCalls(resp)) |-> RoundCalls(resp)[i].tool # TaskManagerName])

\* what every successful round leaves: the tree with the round's subtasks in the
\* file, and one more record, carrying the number of the round
RoundPersisted(resp) ==
    /\ saved_tree'.written
    /\ saved_tree'.of.tasks = tasks'
    /\ ExpectedSubtasks(resp) # << >> =>
          \E j \in 1..Len(saved_tree'.of.tasks) :
              AddedSubtasks(tasks, saved_tree'.of.tasks, j) = ExpectedSubtasks(resp)
    /\ last_flag_candidate' = DetectFlags(last_flag_candidate, resp, RoundResults(resp))
    /\ Len(conversation_history') = Len(conversation_history) + 1
    /\ conversation_history'[Len(conversation_history')].round_number = current_round'

\* C35 as stated: the directives of the text are applied before the calls are
\* attached, the tree is written after both and the record is appended last, so
\* every task the text of a round declares in progress receives the subtasks of
\* that round, and the tree file of the round holds them
C35_DeclaredTaskReceives ==
    [][\A resp \in OrderResponses :
          OrderRound(resp) =>
              /\ \A id \in DeclaredInProgress(resp) :
                    /\ IndexOf(tasks', id) # 0
                    /\ AddedSubtasks(tasks, tasks', IndexOf(tasks', id)) = ExpectedSubtasks(resp)
              /\ RoundPersisted(resp)]_vars

\* C35 amended: the same order of steps, so the task the text of a round declares
\* in progress receives the subtasks of that round when it is the last
\* in-progress task of the tree after the directives are applied
C35_LatestDeclaredTaskReceives ==
    [][\A resp \in OrderResponses :
          OrderRound(resp) =>
              /\ \A id \in DeclaredInProgress(resp) :
                    /\ IndexOf(tasks', id) # 0
                    /\ LastInProgress(tasks') = IndexOf(tasks', id) =>
                          AddedSubtasks(tasks, tasks', IndexOf(tasks', id))
                             = ExpectedSubtasks(resp)
              /\ RoundPersisted(resp)]_vars

\* the first round declared task 2 in progress and called one tool: the task
\* exists with that subtask, no default task was made, and the file holds it
C35_Witness ==
    /\ n_calls = 1
    /\ ret.kind = "response"
    /\ Len(tasks) = 1
    /\ tasks[1].id = 2
    /\ tasks[1].status = "in-progress"
    /\ Len(tasks[1].subtasks) = 1
    /\ tasks[1].subtasks[1].tool = "code_executor"
    /\ saved_tree.written
    /\ saved_tree.of.tasks = tasks
    /\ last_flag_candidate # NoCandidate
    /\ Len(conversation_history) = 1

----------------------------------------------------------------------------
(* Properties of the Task Tree *)

\* every directive the response applies names its task by a number: arrow
\* directives always do, a JSON update does when its task_id is numeric
ExplicitIds(resp) ==
    \/ Len(resp.arrows) # 0
    \/ \A i \in 1..Len(resp.inline) :
          \A k \in 1..Len(resp.inline[i].payload.updates) :
              resp.inline[i].payload.updates[k].task_id \notin {NoId, BadId}

Twice(resp) == ExtractTasks(ExtractTasks(CurrentTree, resp), resp)

C6_OneTaskPerId ==
    /\ \A i, j \in 1..Len(tasks) : tasks[i].id = tasks[j].id => i = j
    /\ \A i \in 1..Len(tasks) : tasks[i].id \in DOMAIN directive_log \cup {DefaultTask.id}
    /\ \A id \in DOMAIN directive_log :
          \E i \in 1..Len(tasks) :
              /\ tasks[i].id = id
              /\ tasks[i].status = directive_log[id].status
              /\ tasks[i].description = directive_log[id].description

C6_Witness ==
    /\ 1 \in DOMAIN directive_log
    /\ directive_log[1].n = 2
    /\ directive_log[1].status = "completed"
    /\ \E i \in 1..Len(tasks) :
          tasks[i].id = 1 /\ tasks[i].status = "completed" /\ tasks[i].subtasks # << >>

\* C7: add_tool_result, for a tool other than the task-reporting tool, attaches
\* one subtask to the last in-progress task, else to the task with the highest
\* id, after creating the default task (id 1, in-progress) in an empty tree
C7_AttachTarget ==
    last_attach.tool \notin {"none", TaskManagerName} =>
        LET base == IF last_attach.before = << >> THEN << DefaultTask >> ELSE last_attach.before
            after == last_attach.after
            e == IF \E i \in 1..Len(base) : base[i].status = "in-progress"
                 THEN CHOOSE i \in 1..Len(base) :
                        /\ base[i].status = "in-progress"
                        /\ \A j \in (i+1)..Len(base) : base[j].status # "in-progress"
                 ELSE CHOOSE i \in 1..Len(base) : \A j \in 1..Len(base) : base[j].id <= base[i].id
        IN  /\ Len(after) = Len(base)
            /\ \A k \in 1..Len(base) : k # e => after[k] = base[k]
            /\ Len(after[e].subtasks) = Len(base[e].subtasks) + 1
            /\ SubSeq(after[e].subtasks, 1, Len(base[e].subtasks)) = base[e].subtasks
            /\ [after[e] EXCEPT !.subtasks = << >>] = [base[e] EXCEPT !.subtasks = << >>]

\* C24: load_from_file after save_to_file gives the object the title, the
\* task list (ids, descriptions, statuses, subtasks) and the watermark of the
\* object that was saved, whatever the object held before the load
C24_SaveLoadRoundTrip ==
    [][(LoadFromFileStep /\ saved_tree.written) =>
          TreeObject(challenge_title', Tree(tasks', current_task_id')) = saved_tree.of]_vars

C24_Witness ==
    /\ saved_tree.written
    /\ saved_tree.loads = 1
    /\ saved_tree.of.challenge_title = ChallengeTitle
    /\ saved_tree.of.current_task_id > 0
    /\ \E i \in 1..Len(saved_tree.of.tasks) : saved_tree.of.tasks[i].subtasks # << >>
    /\ TreeObject(challenge_title, CurrentTree) = saved_tree.of

\* C21: add_tool_result with the name of the task-reporting tool leaves the
\* task list and the watermark as they were: no subtask, and no default task in
\* an empty tree
C21_ReportToolLeavesTree ==
    [][last_attach'.tool = TaskManagerName =>
          (tasks' = tasks /\ current_task_id' = current_task_id)]_vars

C21_Witness ==
    /\ last_attach.tool = TaskManagerName
    /\ last_attach.before = << >>
    /\ tasks = << >>
    /\ current_task_id = 0
    /\ n_calls = 1

\* C22: the status of every task is pending, in-progress, completed or failed
C22_StatusInEnum ==
    \A i \in 1..Len(tasks) : tasks[i].status \in ValidStatuses

\* C23: the id of every task is an integer >= 1
C23_IdsPositive ==
    \A i \in 1..Len(tasks) : tasks[i].id >= 1

Sorted(ts) == \A i \in 1..(Len(ts) - 1) : ts[i].id <= ts[i + 1].id

\* C29: the task list is sorted by ascending id after every call of
\* extract_tasks_from_response, whatever the order before it, and add_tool_result
\* keeps a sorted list sorted, so that every tree the rounds reach from the empty
\* tree is sorted
C29_SortedById ==
    [][/\ ExtractStep => Sorted(tasks')
       /\ (Sorted(tasks) /\ AddToolStep) => Sorted(tasks')]_vars

C29_Witness ==
    /\ Len(tasks) = 2
    /\ tasks[1].id = 0 /\ tasks[1].status = "failed"
    /\ tasks[2].id = MaxTaskId /\ tasks[2].status = "pending"
    /\ 0 \in DOMAIN directive_log /\ directive_log[0].n = 1
    /\ MaxTaskId \in DOMAIN directive_log /\ directive_log[MaxTaskId].n = 1

\* a response without its malformed task-reporting payloads
WellFormedOnly(resp) ==
    [resp EXCEPT !.inline =
        SelectSeq2(@, [i \in 1..Len(@) |-> @[i].payload.kind \notin {"unparseable", "notobject"}])]

HasParseableDirective(resp) ==
    \/ Len(resp.arrows) # 0
    \/ \E i \in 1..Len(JsonPayloads(resp.inline)) :
          /\ JsonPayloads(resp.inline)[i].kind = "ok"
          /\ JsonPayloads(resp.inline)[i].updates # << >>

\* a response with arrow directives leaves the tree its arrow directives leave
ArrowsSuppressJson ==
    \A resp \in TreeResponses :
        Len(resp.arrows) # 0 =>
            ExtractTasks(CurrentTree, resp) = ExtractTasks(CurrentTree, [resp EXCEPT !.inline = << >>])

IsPrefix(s, t) == Len(s) <= Len(t) /\ SubSeq(t, 1, Len(s)) = s

\* C31: every operation on the tree keeps each task, under its id, with the
\* subtasks it had as a prefix of the subtasks it has, also when a directive in
\* either notation updates the task in place; and the ids of the subtasks of a
\* task are 1, 2, ..., n in order
C31_SubtasksAppendOnly ==
    [][/\ \A i \in 1..Len(tasks) :
             \E j \in 1..Len(tasks') :
                 /\ tasks'[j].id = tasks[i].id
                 /\ IsPrefix(tasks[i].subtasks, tasks'[j].subtasks)
       /\ \A j \in 1..Len(tasks') :
             \A k \in 1..Len(tasks'[j].subtasks) : tasks'[j].subtasks[k].id = k]_vars

\* task 0 holds a subtask and the status failed: it received the subtask while
\* it was in progress and was set to failed in place afterwards, by the response
\* that also names the task with the highest id
C31_Witness ==
    /\ Len(tasks) = 2
    /\ tasks[1].id = 0
    /\ tasks[1].status = "failed"
    /\ Len(tasks[1].subtasks) = 1
    /\ tasks[1].subtasks[1].id = 1
    /\ tasks[2].id = MaxTaskId
    /\ tasks[2].subtasks = << >>

\* C30: current_task_id is at least the id of every task, after any
\* interleaving of arrow directives, JSON updates and add_tool_result calls
C30_WatermarkCoversIds ==
    \A i \in 1..Len(tasks) : tasks[i].id <= current_task_id

C30_Witness ==
    /\ Len(tasks) >= 2
    /\ current_task_id = MaxTaskId + 1
    /\ tasks[Len(tasks)].id = MaxTaskId + 1
    /\ \E i \in 1..Len(tasks) : tasks[i].subtasks # << >>

----------------------------------------------------------------------------
(* The Context Optimizer as a function of its arguments: any round number, *)
(* trees of any size, and result lists of every kind                        *)

CtxTrees ==
    { [i \in 1..k |-> NewTask(i, "recon", IF i = 1 THEN "in-progress" ELSE "pending")] :
          k \in 0..MaxCtxTasks }

CtxResults ==
    { << >>, << ShortOut >>, << LongOut >>, << EmptyText >>,
      << Text("flag", 90) >>, << Text("trace", 300) >>, << ErrorOf(ShortOut) >>,
      << Text("flag", 90), ShortOut >>, << ShortOut, Text("succ", 120) >> }

InitCtx ==
    /\ has_tree \in BOOLEAN
    /\ challenge_title = DefaultTitle
    /\ tasks \in CtxTrees
    /\ current_task_id = Len(tasks)
    /\ current_round \in 0..MaxCtxRound
    /\ conversation_history = << >>
    /\ chat_messages = << >>
    /\ last_tool_results \in CtxResults
    /\ last_flag_candidate = NoCandidate
    /\ ret = NoRet
    /\ sent = NoSent
    /\ prompt = NoPrompt
    /\ directive_log = << >>
    /\ last_attach = NoAttach
    /\ n_calls = 0
    /\ dispatched = NoDispatch
    /\ saved_tree = NoTreeFile
    /\ saved_history = NoFile
    /\ session = NoSession
    /\ scan = NoScan

NextCtx == GetContinuePrompt

SpecCtx == InitCtx /\ [][NextCtx]_vars

----------------------------------------------------------------------------
(* Properties of the Context Optimizer and of the continuation prompt *)

Latest(results) == results[Len(results)]

\* the tree holds the result cut to the stored length
TruncatedWhenStored(result) ==
    /\ Length(result) > ResultCap
    /\ \E i \in 1..Len(tasks) :
          \E j \in 1..Len(tasks[i].subtasks) :
              tasks[i].subtasks[j].result = Truncate(result, ResultCap)

InSnapshot(result, ctx) ==
    result \in SeqToSet(ctx.truncated_results) \cup SeqToSet(ctx.previews)

\* C3: a newest result longer than 80 characters that the tree holds truncated
\* is in the snapshot in full, whatever the kind of the snapshot and whichever
\* task holds it
C3_LatestResultInSnapshot ==
    (/\ prompt.built
     /\ has_tree
     /\ prompt.tool_results # << >>
     /\ Length(Latest(prompt.tool_results)) > PreviewCap
     /\ TruncatedWhenStored(Latest(prompt.tool_results)))
    => InSnapshot(Latest(prompt.tool_results), prompt.context)

\* C4: when the previous round produced a non-empty tool result, the
\* continuation prompt holds the newest tool result, whatever its content
C4_LatestResultInPrompt ==
    (/\ prompt.built
     /\ \E i \in 1..Len(prompt.tool_results) : Length(prompt.tool_results[i]) > 0
     /\ Length(Latest(prompt.tool_results)) > 0)
    => Latest(prompt.tool_results) \in SeqToSet(prompt.results)

\* C8: the snapshot of a tree is of kind full exactly when the round is a
\* multiple of 5, or there are at most 3 tasks, or a recent result holds a goal
\* token or an error word; so 2 tasks at round 7 give kind full
C8_FullContextIff ==
    (prompt.built /\ has_tree) =>
        /\ prompt.context.context_type \in {"full", "recent"}
        /\ prompt.context.context_type = "full" <=>
              \/ prompt.round % 5 = 0
              \/ prompt.task_count <= 3
              \/ \E r \in SeqToSet(prompt.tool_results) : MatchesGoalToken(r) \/ HasErrorWord(r)
        /\ (prompt.task_count = 2 /\ prompt.round = 7) => prompt.context.context_type = "full"

C8_Witness ==
    /\ prompt.built
    /\ has_tree
    /\ prompt.task_count = 2
    /\ prompt.round = 7
    /\ prompt.tool_results = << ShortOut >>
    /\ prompt.context.context_type = "full"

\* C25: in every snapshot, of every kind, token_estimate is the length of
\* content divided by 4, rounded down
C25_TokenEstimate ==
    prompt.built =>
        prompt.context.token_estimate = prompt.context.content_len \div 4

\* C9: the snapshot of a tree with zero tasks is of kind empty
C9_NoTasksIsEmpty ==
    (prompt.built /\ has_tree /\ prompt.task_count = 0) =>
        prompt.context.context_type = "empty"

----------------------------------------------------------------------------
(* The session loops of main.py: handle_auto_solving and                    *)
(* handle_hitl_solving, one action per decision of the operator, with the   *)
(* calls of the agent that decision leads to                                *)

MaxSessionRounds == 3   \* interact calls in one behaviour of SpecSession
MaxBudgetCalls == 32    \* interact calls in one behaviour of SpecBudget

AutoMaxRounds == 30     \* handle_auto_solving: max_rounds
HitlMaxRounds == 15     \* handle_hitl_solving: max_rounds

PlaceholderCandidate == Pico \o << "C", "T", "F" >> \o Braced(<< "F", "L", "A", "G" >>)

SessionResponses ==
    { PlainResp,
      OneCall(Obs("plain", ShortOut)),
      OneCall(Obs("plain", Text("flag", 90))),
      Resp(<< >>, << Call("code_executor", Obs("plain", ShortOut)) >>, << >>,
           PlaceholderCandidate),
      Resp(<< >>, << >>, << >>, Candidate),
      Resp(<< >>, << Call("code_executor", Obs("plain", ShortOut)) >>, << >>,
           OtherCandidate) }

\* what the operator types in: nothing, a remark, a flag
HumanInputs == { << >>, << "o", "k" >>, Candidate }
ManualFlags == { << >>, Candidate }

NewSession(mode) == [session EXCEPT !.pc = "top", !.mode = mode]

\* the model of a session: over a short session it answers with any of
\* SessionResponses or fails; over a long one it always answers, in plain text
\* with or without a flag
SessionReplies == IF session.env = "long" THEN { PlainResp, Resp(<< >>, << >>, << >>, Candidate) }
                  ELSE SessionResponses
SessionFailures == IF session.env = "long" THEN {FALSE} ELSE BOOLEAN
SessionCalls == IF session.env = "long" THEN MaxBudgetCalls ELSE MaxSessionRounds

max_rounds == IF session.mode = "auto" THEN AutoMaxRounds ELSE HitlMaxRounds

\* the agent's state, for the steps of the loop that call none of its methods
AgentFrame ==
    UNCHANGED << has_tree, challenge_title, tasks, current_task_id, current_round, conversation_history,
                 chat_messages, last_tool_results, last_flag_candidate, ret, sent, prompt,
                 directive_log, last_attach, n_calls, dispatched, saved_tree >>

\* for r in reversed(rounds): for text in (r.ai_response, r.human_input):
\* re.search(r"picoCTF\{[^}]+\}", text), after one more round
ConversationFlag(previous, response, human) ==
    IF SearchStrict(response) # << >> THEN SearchStrict(response)
    ELSE IF SearchStrict(human) # << >> THEN SearchStrict(human)
    ELSE previous

\* response = agent.interact(next_input) from the loop in state s0; kind says
\* how next_input was made
SessionInteract(s0, kind, source, human, pc) ==
    /\ n_calls < SessionCalls
    /\ \E resp \in SessionReplies, fail \in SessionFailures :
          /\ InteractFrom(current_round, challenge_title, has_tree, CurrentTree, directive_log, 1000,
                          source, resp, fail, TRUE)
          /\ session' = [s0 EXCEPT
                            !.pc = pc,
                            !.response = IF fail THEN << >> ELSE resp.chars,
                            !.conv_flag = IF fail THEN @
                                          ELSE ConversationFlag(@, resp.chars, human),
                            !.input = kind,
                            !.after_rejection = s0.rejected,
                            !.rejected = FALSE]
    /\ UNCHANGED << saved_history, scan >>

\* next_input = agent.get_continue_prompt(..) or agent.determine_next_input(..)
ContinueKind == IF last_tool_results # << >> THEN "continue" ELSE "determine"

\* ask_save_conversation, then return
AskSaveConversation(s0) ==
    /\ \E save_choice \in {"y", "n"} :
          saved_history' = IF save_choice = "y"
                           THEN [written |-> TRUE, content |-> conversation_history]
                           ELSE saved_history
    /\ session' = [s0 EXCEPT !.pc = "done"]
    /\ AgentFrame
    /\ UNCHANGED scan

\* response = agent.start_challenge(challenge_data)
StartSession ==
    /\ session.pc = "none"
    /\ n_calls = 0
    /\ \E mode \in {"auto", "hitl"}, resp \in SessionReplies, fail \in SessionFailures :
          /\ InteractFrom(0, ChallengeTitle, TRUE, NewTree, << >>, 1000, "agent", resp, fail, TRUE)
          /\ session' = [NewSession(mode) EXCEPT
                            !.response = IF fail THEN << >> ELSE resp.chars,
                            !.conv_flag = IF fail THEN << >>
                                          ELSE ConversationFlag(<< >>, resp.chars, << >>)]
    /\ UNCHANGED << saved_history, scan >>

InLoop(mode, pc) ==
    /\ session.pc = pc
    /\ session.mode = mode
    /\ pc = "top" => current_round < max_rounds

\* the candidate of the first menu of the auto loop: last_flag_candidate, else
\* the last tool results and the conversation (where the agent's detector found
\* nothing when last_flag_candidate is not set), else what the operator types in
AutoCandidate(manual) == IF last_flag_candidate # << >> THEN last_flag_candidate ELSE manual

\* first menu, choice 1: continue with the tool results
AutoContinue ==
    /\ InLoop("auto", "top")
    /\ last_tool_results # << >>
    /\ SessionInteract(session, "continue", "agent", << >>, "menu2")

\* first menu, choice 2: verify; a confirmed candidate ends the session, a
\* rejected or missing one falls back to get_continue_prompt and interact
AutoVerify ==
    /\ InLoop("auto", "top")
    /\ last_tool_results # << >>
    /\ \E manual \in ManualFlags, final_choice \in {"y", "n"} :
          LET candidate == AutoCandidate(manual) IN
          IF candidate = << >>
          THEN SessionInteract(session, "continue", "agent", << >>, "menu2")
          ELSE IF final_choice = "y"
          THEN AskSaveConversation([session EXCEPT !.offered = candidate,
                                                   !.final_flag = candidate])
          ELSE SessionInteract([session EXCEPT !.offered = candidate, !.rejected = TRUE],
                               "continue", "agent", << >>, "menu2")

\* choice 3 of either menu, or the end of the while loop: ask_save_conversation
AutoStop ==
    /\ session.mode = "auto"
    /\ \/ session.pc = "menu2"
       \/ session.pc = "top" /\ last_tool_results # << >>
       \/ session.pc = "top" /\ current_round >= max_rounds
    /\ AskSaveConversation(session)

\* no tool results from the previous round: determine_next_input and interact
AutoNoResults ==
    /\ InLoop("auto", "top")
    /\ last_tool_results = << >>
    /\ SessionInteract(session, "determine", "agent", << >>, "menu2")

\* second menu, choice 1
AutoContinueAgain ==
    /\ InLoop("auto", "menu2")
    /\ SessionInteract(session, ContinueKind, "agent", << >>, "top")

\* second menu, choice 2: the only candidate is last_flag_candidate; without
\* one the operator may type a flag in.  A rejected candidate is fed back
AutoVerifyAgain ==
    /\ InLoop("auto", "menu2")
    /\ \E manual \in ManualFlags, final_choice \in {"y", "n"} :
          LET candidates_list == IF last_flag_candidate # << >>
                                 THEN << last_flag_candidate >> ELSE << >>
              selected_flag == IF candidates_list # << >>
                               THEN (IF final_choice = "y" THEN candidates_list[1] ELSE << >>)
                               ELSE manual
              s0 == IF candidates_list # << >>
                    THEN [session EXCEPT !.offered = candidates_list[1]]
                    ELSE session
          IN  IF selected_flag # << >>
              THEN AskSaveConversation([s0 EXCEPT !.final_flag = selected_flag])
              ELSE IF candidates_list # << >>
              THEN SessionInteract([s0 EXCEPT !.rejected = TRUE], "feedback", "agent",
                                   << >>, "top")
              ELSE /\ session' = [s0 EXCEPT !.pc = "top"]
                   /\ AgentFrame
                   /\ UNCHANGED << saved_history, scan >>

\* either menu of the human-in-the-loop loop, choice 1
HitlContinue ==
    /\ InLoop("hitl", "top")
    /\ SessionInteract(session, "continue", "agent", << >>, "detect")

\* either menu, choice 2: what the operator typed goes to the model
HitlHumanInput ==
    /\ InLoop("hitl", "top")
    /\ \E human_input \in HumanInputs \ {<< >>} :
          SessionInteract([session EXCEPT !.last_human_input = human_input],
                          "human", "human", human_input, "detect")

\* the candidate of the verification of the human-in-the-loop loop: the last
\* tool results, else the conversation, else what the operator types in
HitlCandidate(manual) ==
    IF \E i \in 1..Len(last_tool_results) : MatchesGoalToken(last_tool_results[i])
    THEN Candidate
    ELSE IF session.conv_flag # << >> THEN session.conv_flag
    ELSE manual

\* menu with tool results, choice 3: verify, without a call of the model
HitlVerify ==
    /\ InLoop("hitl", "top")
    /\ last_tool_results # << >>
    /\ \E manual \in ManualFlags, final_choice \in {"y", "n"} :
          LET candidate == HitlCandidate(manual) IN
          IF candidate # << >> /\ final_choice = "y"
          THEN AskSaveConversation([session EXCEPT !.offered = candidate,
                                                   !.final_flag = candidate])
          ELSE /\ session' = IF candidate # << >>
                             THEN [session EXCEPT !.pc = "detect", !.offered = candidate,
                                                  !.rejected = TRUE]
                             ELSE [session EXCEPT !.pc = "detect"]
               /\ AgentFrame
               /\ UNCHANGED << saved_history, scan >>

\* the last choice of either menu, or the end of the while loop
HitlStop ==
    /\ session.mode = "hitl"
    /\ session.pc = "top"
    /\ AskSaveConversation(session)

\* after the menu: a flag in the latest response, else in the operator's last
\* input, is offered unless is_placeholder_flag; a rejected one is fed back
HitlDetect ==
    /\ InLoop("hitl", "detect")
    /\ \E confirm \in {"y", "n"} :
          LET detected_flag == IF SearchStrict(session.response) # << >>
                               THEN SearchStrict(session.response)
                               ELSE SearchStrict(session.last_human_input)
          IN  IF detected_flag # << >> /\ ~is_placeholder_flag(detected_flag)
              THEN IF confirm = "y"
                   THEN AskSaveConversation([session EXCEPT !.offered = detected_flag,
                                                            !.final_flag = detected_flag])
                   ELSE SessionInteract([session EXCEPT !.offered = detected_flag,
                                                        !.rejected = TRUE],
                                        "feedback", "agent", << >>, "top")
              ELSE /\ session' = [session EXCEPT !.pc = "top"]
                   /\ AgentFrame
                   /\ UNCHANGED << saved_history, scan >>

NextSession ==
    \/ StartSession
    \/ AutoContinue \/ AutoVerify \/ AutoStop \/ AutoNoResults
    \/ AutoContinueAgain \/ AutoVerifyAgain
    \/ HitlContinue \/ HitlHumanInput \/ HitlVerify \/ HitlStop \/ HitlDetect

SpecSession == Init /\ [][NextSession]_vars

\* long sessions, up to the round budget of either loop and past it
InitBudget ==
    /\ has_tree = FALSE
    /\ challenge_title = DefaultTitle
    /\ tasks = << >>
    /\ current_task_id = 0
    /\ current_round = 0
    /\ conversation_history = << >>
    /\ chat_messages = << >>
    /\ last_tool_results = << >>
    /\ last_flag_candidate = NoCandidate
    /\ ret = NoRet
    /\ sent = NoSent
    /\ prompt = NoPrompt
    /\ directive_log = << >>
    /\ last_attach = NoAttach
    /\ n_calls = 0
    /\ dispatched = NoDispatch
    /\ saved_tree = NoTreeFile
    /\ saved_history = NoFile
    /\ session = [NoSession EXCEPT !.env = "long"]
    /\ scan = NoScan

NextBudget ==
    \/ StartSession
    \/ AutoNoResults \/ AutoContinueAgain \/ AutoVerifyAgain \/ AutoStop
    \/ HitlContinue \/ HitlDetect \/ HitlStop

SpecBudget == InitBudget /\ [][NextBudget]_vars

----------------------------------------------------------------------------
(* Properties of the session loops *)

\* C15: the input of the first interact call after the operator rejected a
\* presented candidate is the feedback that names the rejection
C15_RejectionIsFedBack ==
    (session.pc # "none" /\ session.after_rejection) => session.input = "feedback"

\* C16: no candidate for which is_placeholder_flag is true is offered to the
\* operator for confirmation or recorded as the final flag
C16_NoPlaceholderOffered ==
    session.pc # "none" =>
        /\ session.offered # << >> => ~is_placeholder_flag(session.offered)
        /\ session.final_flag # << >> => ~is_placeholder_flag(session.final_flag)

\* C38: a session of handle_auto_solving performs at most 30 rounds and a
\* session of handle_hitl_solving at most 15, whatever the operator chooses
C38_RoundBudget ==
    session.pc # "none" => current_round <= max_rounds

\* C40: last_flag_candidate changes only in a successful round, to a candidate
\* detected in that round; a round that detects none and a rejection by the
\* operator leave it as it is, so once set it is never cleared
C40_CandidateOnlyOverwritten ==
    [][/\ last_flag_candidate' # last_flag_candidate =>
             /\ n_calls' = n_calls + 1
             /\ ret'.kind = "response"
             /\ \E i \in 1..Len(dispatched'.matches) :
                   dispatched'.matches[i] = last_flag_candidate'
       /\ last_flag_candidate # NoCandidate => last_flag_candidate' # NoCandidate]_vars

\* the operator rejected the agent's candidate, the round that followed detected
\* nothing, and the same candidate was offered again and confirmed
C40_Witness ==
    /\ session.mode = "auto"
    /\ session.pc = "done"
    /\ session.after_rejection
    /\ session.input = "feedback"
    /\ ret.kind = "response"
    /\ dispatched.matches = << >>
    /\ last_flag_candidate # NoCandidate
    /\ session.offered = last_flag_candidate
    /\ session.final_flag = last_flag_candidate

\* C17: between rounds the task tree file holds the tree of the last completed
\* round and the conversation file holds every completed round
C17_PersistedAfterEveryRound ==
    session.pc # "none" =>
        /\ ret.kind = "response" =>
              /\ saved_tree.written
              /\ saved_tree.content = SaveToFile(challenge_title, CurrentTree)
        /\ conversation_history # << >> =>
              saved_history = [written |-> TRUE, content |-> conversation_history]

----------------------------------------------------------------------------
(* The flag functions and the inline-call parser on their own: each is      *)
(* applied to arguments drawn from the sets below                           *)

MaxBlocks == 3      \* inline call blocks in one model text of SpecScan

Fill(c, n) == [i \in 1..n |-> c]

\* picoCTF in any case
ExactPrefixes ==
    { Pico \o << "C", "T", "F" >>, << "P", "I", "C", "O", "C", "T", "F" >>,
      Pico \o << "c", "t", "f" >> }

\* picoCTF with C or T replaced by ":"
SubstitutedPrefixes ==
    { Pico \o << "C", ":", "F" >>, Pico \o << ":", "T", "F" >>, Pico \o << ":", ":", "F" >>,
      << "P", "I", "C", "O", "C", ":", "F" >> }

\* picoCTF with C or T left out
DroppedPrefixes == { Pico \o << "F" >>, Pico \o << "C", "F" >>, Pico \o << "T", "F" >> }

OtherPrefixes ==
    { << "f", "l", "a", "g" >>, Pico \o << "C", "T" >>, Pico \o << "X", "T", "F" >>,
      Pico \o << "C", "T", "F", ":" >> }

ScanPrefixes == ExactPrefixes \cup SubstitutedPrefixes \cup DroppedPrefixes \cup OtherPrefixes

LikelyReal == << "t", "h", "i", "s", "i", "s", "l", "i", "k", "e", "l", "y", "r", "e", "a", "l", "_", "4", "2" >>

ScanBodies ==
    { << >>, Abc123, LikelyReal, << ".", ".", "." >>, << "F", "L", "A", "G" >>,
      Fill("x", MinXs), Fill("x", MinXs - 1), Fill("!", MinSpecial),
      << "m", "y", "_", "p", "l", "a", "c", "e", "h", "o", "l", "d", "e", "r" >>,
      Fill("a", MinBodyLen - 1), Fill("a", MinBodyLen),
      Fill("a", MaxBodyLen), Fill("a", MaxBodyLen + 1) }

ScanContexts == { << << >>, << >> >>, << << "s", "e", "e", " " >>, << "!" >> >> }

\* a text with one token: context, prefix, "{", body and, when closed, "}"
TokenText(ctx, prefix, body, closed) ==
    ctx[1] \o prefix \o << "{" >> \o body \o (IF closed THEN << "}" >> ELSE << >>) \o ctx[2]

BlockShapes ==
    { Call("code_executor", Obs("plain", ShortOut)),
      [Call("file_reader", Obs("plain", ShortOut)) EXCEPT !.closed_tool = FALSE],
      [Call("nmap", Obs("plain", ShortOut)) EXCEPT !.closed_input = FALSE] }

BlockSeqs == UNION { [1..n -> BlockShapes] : n \in 0..MaxBlocks }

\* the arguments: a text with one token, or a model text of inline call blocks
ScanInputs ==
    { [op |-> "text", prefix |-> prefix, body |-> body, closed |-> closed,
       text |-> TokenText(ctx, prefix, body, closed)] :
          ctx \in ScanContexts, prefix \in ScanPrefixes, body \in ScanBodies,
          closed \in BOOLEAN }
    \cup { [op |-> "blocks", blocks |-> blocks] : blocks \in BlockSeqs }

InitScan ==
    /\ has_tree = FALSE
    /\ challenge_title = DefaultTitle
    /\ tasks = << >>
    /\ current_task_id = 0
    /\ current_round = 0
    /\ conversation_history = << >>
    /\ chat_messages = << >>
    /\ last_tool_results = << >>
    /\ last_flag_candidate = NoCandidate
    /\ ret = NoRet
    /\ sent = NoSent
    /\ prompt = NoPrompt
    /\ directive_log = << >>
    /\ last_attach = NoAttach
    /\ n_calls = 0
    /\ dispatched = NoDispatch
    /\ saved_tree = NoTreeFile
    /\ saved_history = NoFile
    /\ session = NoSession
    /\ scan \in ScanInputs

ScanFrame ==
    UNCHANGED << has_tree, challenge_title, tasks, current_task_id, current_round, conversation_history,
                 chat_messages, last_tool_results, last_flag_candidate, ret, sent, prompt,
                 directive_log, last_attach, n_calls, dispatched, saved_tree,
                 saved_history, session >>

\* FlagValidator._extract_flags(text), and the candidate list of _detect_flags
ExtractFlags ==
    /\ scan.op = "text"
    /\ scan' = [op |-> "detect", prefix |-> scan.prefix, body |-> scan.body,
                closed |-> scan.closed, text |-> scan.text,
                candidates |-> Dedupe(FindAll(scan.text))]
    /\ ScanFrame

\* is_placeholder_flag(candidate) for a candidate the detector returned
IsPlaceholderFlag ==
    /\ scan.op = "detect"
    /\ \E i \in 1..Len(scan.candidates) :
          scan' = [op |-> "placeholder", prefix |-> scan.prefix, body |-> scan.body,
                   flag |-> scan.candidates[i],
                   result |-> is_placeholder_flag(scan.candidates[i])]
    /\ ScanFrame

\* _parse_tool_calls(ai_response)
ParseToolCallsStep ==
    /\ scan.op = "blocks"
    /\ scan' = [op |-> "parse", blocks |-> scan.blocks, calls |-> ParseToolCalls(scan.blocks)]
    /\ ScanFrame

NextScan == ExtractFlags \/ IsPlaceholderFlag \/ ParseToolCallsStep

SpecScan == InitScan /\ [][NextScan]_vars

----------------------------------------------------------------------------
(* Properties of the flag functions and of the inline-call parser *)

\* the blocks that have both closing tags, in their order in the text
RECURSIVE WellFormedBlocks(_)
WellFormedBlocks(blocks) ==
    IF blocks = << >> THEN << >>
    ELSE (IF Head(blocks).closed_tool /\ Head(blocks).closed_input
          THEN << Head(blocks) >> ELSE << >>)
         \o WellFormedBlocks(Tail(blocks))

\* C12: for a text made of inline call blocks, each well-formed or missing its
\* closing </tool> or </input> tag, _parse_tool_calls returns the well-formed
\* calls, in their order in the text, whatever malformed blocks stand between them
C12_ParsesWellFormedBlocks ==
    scan.op = "parse" =>
        /\ Len(scan.calls) = Len(WellFormedBlocks(scan.blocks))
        /\ \A i \in 1..Len(scan.calls) :
              /\ scan.calls[i].tool = WellFormedBlocks(scan.blocks)[i].tool
              /\ scan.calls[i].input = WellFormedBlocks(scan.blocks)[i].input
              /\ scan.calls[i] = WellFormedBlocks(scan.blocks)[i]

C12_Witness ==
    /\ scan.op = "parse"
    /\ Len(scan.blocks) = 3
    /\ ~scan.blocks[1].closed_tool
    /\ ~scan.blocks[2].closed_input
    /\ scan.calls = << scan.blocks[3] >>

\* the characters between the first "{" and the last "}" of a candidate
BodyOf(flag) ==
    LET open == CHOOSE i \in 1..Len(flag) : flag[i] = "{" /\ \A k \in 1..(i-1) : flag[k] # "{"
    IN  SubSeq(flag, open + 1, Len(flag) - 1)

\* C19: is_placeholder_flag is true for picoCTF{...}, picoCTF{FLAG} and
\* picoCTF{xxxx}, false for picoCTF{thisislikelyreal_42}, and true for every
\* candidate of the detector whose body has fewer than 3 or more than 100 characters
C19_PlaceholderExamplesAndLengths ==
    scan.op = "placeholder" =>
        /\ scan.flag = Pico \o << "C", "T", "F" >> \o Braced(<< ".", ".", "." >>) => scan.result
        /\ scan.flag = Pico \o << "C", "T", "F" >> \o Braced(<< "F", "L", "A", "G" >>) => scan.result
        /\ scan.flag = Pico \o << "C", "T", "F" >> \o Braced(Fill("x", 4)) => scan.result
        /\ scan.flag = Pico \o << "C", "T", "F" >> \o Braced(LikelyReal) => ~scan.result
        /\ (Len(BodyOf(scan.flag)) < 3 \/ Len(BodyOf(scan.flag)) > 100) => scan.result

\* C20: the detector returns a non-empty list for a text that holds
\* picoCTF{abc_123} or a variant of it with C or T replaced by ":", in any case,
\* and the empty list for a text that holds no token made of a prefix the
\* pattern accepts (pico, then optionally C or ":", then optionally T or ":",
\* then F) and a braced non-empty body
C20_DetectorMatches ==
    scan.op = "detect" =>
        /\ (/\ scan.prefix \in ExactPrefixes \cup SubstitutedPrefixes
            /\ scan.body = Abc123
            /\ scan.closed)
           => scan.candidates = << scan.prefix \o Braced(Abc123) >>
        /\ (\/ scan.prefix \notin ExactPrefixes \cup SubstitutedPrefixes \cup DroppedPrefixes
            \/ scan.body = << >>
            \/ ~scan.closed)
           => scan.candidates = << >>

C20_Witness ==
    /\ scan.op = "detect"
    /\ scan.prefix = << "P", "I", "C", "O", "C", ":", "F" >>
    /\ scan.body = Abc123
    /\ scan.closed
    /\ Len(scan.text) > Len(scan.prefix) + Len(scan.body) + 2
    /\ scan.candidates # << >>

====
